---- MODULE Spec2Model ----
(***************************************************************************)
(* Model of the janus client runtime: the CommandActor (request/response   *)
(* multiplexer), the ConnectionActor and its connection task, the          *)
(* SupervisorActor's status forwarding, and the EventActor (event router). *)
(*                                                                         *)
(* Actors are actix actors: each handles one message at a time, so every   *)
(* handler is one atomic action.  Mailboxes are FIFO queues.               *)
(***************************************************************************)
EXTENDS Integers, Sequences, FiniteSets, TLC

(***************************************************************************)
(* Bounds of the model.                                                    *)
(***************************************************************************)
\* number of SendCommand messages one CommandActor instance handles
MaxId == 2
\* inbound texts in flight between the read loop and the EventActor (SpecConn)
MaxInbox == 1
\* event texts arriving on the connection (SpecEvt)
MaxEvents == 2
\* subscriptions held by the EventActor at one time (SpecEvt)
MaxSubs == 3

(***************************************************************************)
(* Program constants.                                                      *)
(***************************************************************************)
\* mpsc::channel::<String>(100) between SendMessage and the write task
OutgoingCapacity == 100

(***************************************************************************)
(* Option<T>, serde_json::Value and the error enums.                       *)
(***************************************************************************)
None == [tag |-> "None"]
Some(x) == [tag |-> "Some", v |-> x]

\* A serde_json::Value is modelled by its JSON text inside a tagged record.
Value(text) == [json |-> text]
ValueNull == Value("null")
\* Value::to_string(): the JSON text of the value (a String, not a Value)
ValueToString(val) == val.json
\* Option::unwrap_or
UnwrapOr(opt, default) == IF opt.tag = "Some" THEN opt.v ELSE default
\* Option::map(|v| v.to_string())
MapToString(opt) == IF opt.tag = "Some" THEN Some(ValueToString(opt.v)) ELSE None

\* TransportError variants
ConnectionFailed(s) == [kind |-> "ConnectionFailed", text |-> s]
NotConnected(s) == [kind |-> "NotConnected", text |-> s]
SendFailed(s) == [kind |-> "SendFailed", text |-> s]
TransportTimeout == [kind |-> "Timeout", text |-> ""]
InvalidUrl(s) == [kind |-> "InvalidUrl", text |-> s]
ReceiveFailed(s) == [kind |-> "ReceiveFailed", text |-> s]
TransportIo(s) == [kind |-> "Io", text |-> s]

\* CommandResult = Result<Value, InternalError>
Ok(val) == [kind |-> "Ok", value |-> val]
ErrProtocol(code, message, data) ==
    [kind |-> "Protocol", code |-> code, message |-> message, data |-> data]
ErrTimeout == [kind |-> "Timeout"]
ErrTransport(e) == [kind |-> "Transport", err |-> e]
ErrActor(s) == [kind |-> "Actor", text |-> s]
ErrSerialization == [kind |-> "Serialization"]

\* ConnectionState
Idle == [tag |-> "Idle"]
Connecting == [tag |-> "Connecting"]
Connected == [tag |-> "Connected"]
Disconnecting == [tag |-> "Disconnecting"]
Disconnected(errOpt) == [tag |-> "Disconnected", err |-> errOpt]
FailedToStart(e) == [tag |-> "FailedToStart", err |-> e]

IsTerminal(st) == st.tag \in {"Disconnected", "FailedToStart"}

(***************************************************************************)
(* State.                                                                  *)
(***************************************************************************)
VARIABLES
    \* CommandActor
    next_id,            \* next request id
    pending_requests,   \* id -> PendingRequestInfo
    timers,             \* timeout handles scheduled by notify_later, not yet fired or cancelled
    sinks,              \* id -> values sent into that command's result_tx
    allocated,          \* history: the commands handled, in order, with the id each got
    send_reply,         \* id -> result of connection_actor.send(SendMessage) not yet seen by the CommandActor
    cmd_running,        \* the CommandActor has not stopped
    cmd_mbox,           \* the CommandActor's mailbox: IncomingMessage, status updates, stop requests
    handled,            \* the response or CommandTimeout the last step handled, if it handled one
    \* ConnectionActor
    conn_state,         \* ConnectionActor.state
    conn_running,       \* "new", "running" or "stopped"
    conn_mbox,          \* the ConnectionActor's mailbox
    outgoing_tx,        \* ConnectionActor.outgoing_tx is Some
    task,               \* position of the connection task
    outgoing,           \* the bounded outgoing channel
    send_futs,          \* ResponseFutures returned by Handler<SendMessage>, not yet complete,
                        \* in the order they were spawned
    \* SupervisorActor
    sup,                \* which supervised addresses are Some
    sup_running,
    sup_mbox,           \* ConnectionStatusUpdate messages sent to the supervisor
    \* EventActor
    evt_mbox,           \* the EventActor's mailbox: ProtocolEvent messages, stop requests
    evt_running,        \* the EventActor has not stopped
    subscriptions,      \* (event name, session id option) -> set of subscribers
    \* subscribers of events
    sink_alive,         \* subscribers whose mailbox is open
    delivered,          \* subscriber -> the ProtocolEvents put in its mailbox, in order
    arrivals,           \* number of texts the transport has yielded to the read loop
    \* callers of SendCommand
    rx_dropped,         \* ids whose result receiver the caller has dropped
    \* WebSocketTransport
    ws_sink,            \* WebSocketTransport.sink is Some
    ws_source,          \* WebSocketTransport.source is Some
    ws_discards,        \* calls of receive() in progress whose result will be discarded
    ws_ended,           \* the peer's stream has yielded a close or an error
    \* other holders of the ConnectionActor's address
    sent_raw,           \* number of SendMessage they have sent
    \* observations
    accepted,           \* texts of the SendMessage the ConnectionActor handled, in order
    wire,               \* texts transport.send has written, in order
    arrived,            \* Text frames that arrived on the transport, in order
    forwarded,          \* texts the read loop sent to the message handler, in order
    pending_at_send_failure, \* ids pending when transport.send failed, None before
    \* SupervisorActor, continued
    browser_actors,     \* SupervisorActor.browser_actors holds "chrome"
    sup_signals,        \* history: number of shutdown signals the supervisor has handled
    \* ChromeBrowserActor
    br_running,         \* "none" (not created), "new", "running" or "stopped"
    br_mbox,            \* the ChromeBrowserActor's mailbox
    page_actors,        \* target ids that have a ChromePageActor
    pages,              \* the ChromePageActors created, in the order of their creation
    target_sessions,    \* target id -> session id
    create_page,        \* the CreatePage future: where it is, its target id, waited time, result
    br_commands,        \* SendCommand messages the ChromeBrowserActor sent to the CommandActor
    br_replies,         \* results returned to the senders of browser requests, in order
    br_observed,        \* Target.* events the ChromeBrowserActor has handled, in order
    \* addresses the core actors were constructed with
    connection_actor,   \* CommandActor.connection_actor: the actor the address belongs to
    message_handler     \* ConnectionActor.message_handler: the actor the recipient belongs to

cmdVars == <<next_id, pending_requests, timers, sinks, allocated, send_reply,
             cmd_running, cmd_mbox>>
connVars == <<conn_state, conn_running, conn_mbox, outgoing_tx, task, outgoing, send_futs>>
supVars == <<sup, sup_running, sup_mbox>>
evtVars == <<evt_mbox, evt_running, subscriptions, sink_alive, delivered>>
wsVars == <<ws_sink, ws_source, ws_discards, ws_ended>>
obsVars == <<arrived, forwarded, pending_at_send_failure>>
outVars == <<sent_raw, accepted, wire>>
brVars == <<br_running, page_actors, target_sessions, pages, create_page, br_commands, br_replies,
           br_observed>>
coreVars == <<connection_actor, message_handler>>
supAux == <<browser_actors, br_mbox>>
supBrAux == <<sup_signals, brVars, supAux, coreVars>>
auxNoSup == <<rx_dropped, wsVars, outVars, obsVars, sup_signals, brVars, coreVars>>
auxVars == <<auxNoSup, supAux>>
vars == <<cmdVars, handled, connVars, supVars, evtVars, arrivals, auxVars>>

Ids == 1..MaxId

(***************************************************************************)
(* Inputs.                                                                 *)
(***************************************************************************)
Methods == {"Browser.getVersion"}
Sessions == {None}
Params == {Value("{}")}

\* JsonRpcError objects a peer sends
ErrorObjects ==
    { [code |-> -32601, message |-> "no such method", data |-> None],
      [code |-> -32000, message |-> "failed", data |-> Some(Value("\"detail\""))] }

\* An inbound text: well-formed JSON objects are the record of their fields.
JsonText(obj) == [wf |-> TRUE, obj |-> obj]
Malformed == [wf |-> FALSE, obj |-> [raw |-> "not json"]]

ResponseTexts ==
    { JsonText([id |-> i, result |-> Value("{\"product\":\"X/1.0\"}")]) : i \in Ids }
    \cup { JsonText([id |-> i]) : i \in Ids }
    \cup { JsonText([id |-> i, error |-> e]) : i \in Ids, e \in ErrorObjects }
EventTexts ==
    { JsonText([method |-> "Page.loadEventFired", params |-> Value("{}")]),
      JsonText([method |-> "Page.loadEventFired", sessionId |-> "sess-A"]) }
OtherTexts ==
    { JsonText([error |-> [code |-> -32700, message |-> "parse error", data |-> None]]),
      JsonText([params |-> Value("{}")]),
      Malformed }
InboundTexts == ResponseTexts \cup EventTexts \cup OtherTexts

TransportErrors == { ConnectionFailed("reset") }

(***************************************************************************)
(* Collections and mailboxes.                                              *)
(***************************************************************************)
\* HashMap::remove(&key): the map without the key
MapRemove(m, k) == [x \in (DOMAIN m) \ {k} |-> m[x]]
\* HashMap::insert(key, value)
MapInsert(m, k, val) == [x \in (DOMAIN m) \cup {k} |-> IF x = k THEN val ELSE m[x]]
\* the empty HashMap
EmptyMap == [x \in {} |-> None]
\* faulty variant of a mailbox: the newest message is taken first
DoSendToFront(mbox, msg) == <<msg>> \o mbox

\* Addr::do_send / Recipient::do_send: the message joins the end of the mailbox
DoSend(mbox, msg) == Append(mbox, msg)

(***************************************************************************)
(* Wire envelope: JsonRpcRequest, IncomingJson.                            *)
(***************************************************************************)
\* serde_json::to_string(&JsonRpcRequest): sessionId is skipped when None
SerializeRequest(id, method, params, session_id) ==
    IF session_id.tag = "Some"
    THEN JsonText([id |-> id, method |-> method, params |-> params, sessionId |-> session_id.v])
    ELSE JsonText([id |-> id, method |-> method, params |-> params])

\* a field of a JSON object as Option (#[serde(default)])
Field(obj, name) == IF name \in DOMAIN obj THEN Some(obj[name]) ELSE None

\* serde_json::from_str::<IncomingJson>(text)
ParseIncoming(text) ==
    IF text.wf
    THEN [ok |-> TRUE,
          parsed |-> [id |-> Field(text.obj, "id"),
                      method |-> Field(text.obj, "method"),
                      params |-> Field(text.obj, "params"),
                      result |-> Field(text.obj, "result"),
                      error |-> Field(text.obj, "error"),
                      session_id |-> Field(text.obj, "sessionId")]]
    ELSE [ok |-> FALSE, parsed |-> None]

\* value of `handled` after a step that handled neither a response nor a CommandTimeout
Other == [op |-> "other", id |-> 0]

\* what `connection_actor.send(SendMessage(..)).await` yields
ReplyOk == [tag |-> "Ok"]
ReplyErr(e) == [tag |-> "Err", err |-> e]
ReplyMailboxError == [tag |-> "MailboxError"]

(***************************************************************************)
(* CommandActor.                                                           *)
(***************************************************************************)
\* result_tx.send(value) on the oneshot channel of command id: the value reaches
\* the sink unless the caller has dropped the receiver (the send then fails and
\* the failure is ignored)
ResultTxSend(snks, id, value) ==
    IF id \in rx_dropped THEN snks ELSE [snks EXCEPT ![id] = Append(@, value)]

\* faulty variant of the increment: the counter is left where it is
NextIdStuck(n) == n

\* self.next_id += 1
NextIdAfter(n) == n + 1

\* faulty variant of the result construction: the error object is ignored
ResponseResultIgnoringError(response) == [kind |-> "Ok", value |-> UnwrapOr(response.result, ValueNull)]

\* the CommandResult handle_response builds from a JsonRpcResponse
ResponseResult(response) ==
    IF response.error.tag = "Some"
    THEN ErrProtocol(Some(response.error.v.code), response.error.v.message,
                     MapToString(response.error.v.data))
    ELSE Ok(UnwrapOr(response.result, ValueNull))

\* faulty variant of handle_response: the sink is resolved but the record and its
\* timer are kept
handle_response_keeping_record(response) ==
    IF response.id \in DOMAIN pending_requests
    THEN /\ sinks' = ResultTxSend(sinks, response.id, ResponseResult(response))
         /\ UNCHANGED <<pending_requests, timers>>
    ELSE UNCHANGED <<pending_requests, timers, sinks>>

\* faulty variant of handle_response: a response for an id that is not pending is
\* given to the sink of that id all the same
handle_response_without_lookup(response) ==
    /\ pending_requests' = MapRemove(pending_requests, response.id)
    /\ timers' = timers \ {response.id}
    /\ sinks' = ResultTxSend(sinks, response.id, ResponseResult(response))

\* faulty variant of handle_response: a record whose result receiver was dropped
\* is put back when the delivery fails
handle_response_requiring_receiver(response) ==
    IF response.id \in DOMAIN pending_requests /\ response.id \notin rx_dropped
    THEN /\ pending_requests' = MapRemove(pending_requests, response.id)
         /\ timers' = timers \ {pending_requests[response.id].timeout_handle}
         /\ sinks' = ResultTxSend(sinks, response.id, ResponseResult(response))
    ELSE UNCHANGED <<pending_requests, timers, sinks>>

\* CommandActor::handle_response
handle_response(response) ==
    IF response.id \in DOMAIN pending_requests
    THEN /\ pending_requests' = MapRemove(pending_requests, response.id)
         /\ timers' = timers \ {pending_requests[response.id].timeout_handle}
         /\ sinks' = ResultTxSend(sinks, response.id, ResponseResult(response))
    ELSE UNCHANGED <<pending_requests, timers, sinks>>

\* CommandActor::handle_event
handle_event(session_id, method, params) ==
    IF evt_running
    THEN evt_mbox' = DoSend(evt_mbox, [type |-> "ProtocolEvent",
                                       event |-> [session_id |-> session_id, method |-> method,
                                                  params |-> UnwrapOr(params, ValueNull)]])
    ELSE UNCHANGED evt_mbox

\* faulty variant of the branch order: a method field is looked at before an id
ClassifyMethodFirst(text) ==
    LET p == ParseIncoming(text) IN
    IF ~p.ok THEN "deserializeError"
    ELSE IF p.parsed.method.tag = "Some" THEN "event"
    ELSE IF p.parsed.id.tag = "Some" THEN "response"
    ELSE IF p.parsed.error.tag = "Some" THEN "error"
    ELSE "unexpected"

\* the branch Handler<IncomingMessage> takes for a text
Classify(text) ==
    LET p == ParseIncoming(text) IN
    IF ~p.ok THEN "deserializeError"
    ELSE IF p.parsed.id.tag = "Some" THEN "response"
    ELSE IF p.parsed.method.tag = "Some" THEN "event"
    ELSE IF p.parsed.error.tag = "Some" THEN "error"
    ELSE "unexpected"


\* faulty variant of the synthetic event's params: the raw text is left out
DeserializeErrorParamsWithoutRaw(text) == Value([error |-> "parse error"])

\* json!({ "error": e.to_string(), "raw": msg.0 })
DeserializeErrorParams(text) == Value([error |-> "parse error", raw |-> text.obj.raw])

\* Handler<IncomingMessage> for CommandActor
CmdIncomingMessage(text) ==
    LET p == ParseIncoming(text).parsed
        c == Classify(text) IN
    /\ handled' = IF c = "response"
                  THEN [op |-> "response", id |-> p.id.v, text |-> text]
                  ELSE Other
    /\ CASE c = "response" ->
              /\ handle_response([id |-> p.id.v, result |-> p.result, error |-> p.error])
              /\ UNCHANGED evt_mbox
         [] c = "event" ->
              /\ handle_event(p.session_id, p.method.v, p.params)
              /\ UNCHANGED <<pending_requests, timers, sinks>>
         [] c = "error" ->
              /\ handle_event(None, "Protocol.error", Some(Value("error object")))
              /\ UNCHANGED <<pending_requests, timers, sinks>>
         [] c = "unexpected" ->
              UNCHANGED <<pending_requests, timers, sinks, evt_mbox>>
         [] c = "deserializeError" ->
              /\ handle_event(None, "Protocol.deserializeError", Some(DeserializeErrorParams(text)))
              /\ UNCHANGED <<pending_requests, timers, sinks>>
    /\ UNCHANGED <<next_id, allocated, send_reply, cmd_running>>


\* faulty variant of Handler<SendCommand>: the record and the timer are
\* registered before the envelope is serialized
SendCommandRegisteringFirst(session_id, method, params, serOk) ==
    LET command_id == next_id
        json_request == SerializeRequest(command_id, method, params, session_id) IN
    /\ cmd_running
    /\ next_id <= MaxId
    /\ next_id' = NextIdAfter(next_id)
    /\ allocated' = Append(allocated, [id |-> command_id, accepted |-> serOk,
                                       connected |-> conn_state = Connected])
    /\ timers' = timers \cup {command_id}
    /\ pending_requests' = MapInsert(pending_requests, command_id,
                               [method |-> method, timeout_handle |-> command_id])
    /\ handled' = Other
    /\ IF ~serOk
       THEN /\ sinks' = ResultTxSend(sinks, command_id, ErrSerialization)
            /\ UNCHANGED <<conn_mbox, send_reply>>
       ELSE /\ IF conn_running = "stopped"
               THEN /\ send_reply' = MapInsert(send_reply, command_id, ReplyMailboxError)
                    /\ UNCHANGED conn_mbox
               ELSE /\ conn_mbox' = DoSend(conn_mbox, [type |-> "SendMessage",
                                           text |-> json_request, reply_to |-> command_id])
                    /\ UNCHANGED send_reply
            /\ UNCHANGED sinks
    /\ UNCHANGED <<cmd_running, cmd_mbox, evt_mbox>>

\* Handler<SendCommand> for CommandActor, up to ctx.spawn(future)
SendCommand(session_id, method, params, serOk) ==
    LET command_id == next_id
        json_request == SerializeRequest(command_id, method, params, session_id) IN
    /\ cmd_running
    /\ next_id <= MaxId
    /\ next_id' = NextIdAfter(next_id)
    /\ allocated' = Append(allocated, [id |-> command_id, accepted |-> serOk,
                                       connected |-> conn_state = Connected])
    /\ IF ~serOk
       THEN /\ sinks' = ResultTxSend(sinks, command_id, ErrSerialization)
            /\ handled' = Other
            /\ UNCHANGED <<pending_requests, timers, conn_mbox, send_reply>>
       ELSE /\ timers' = timers \cup {command_id}
            /\ pending_requests' = MapInsert(pending_requests, command_id,
                                       [method |-> method, timeout_handle |-> command_id])
            /\ IF connection_actor # "ConnectionActor"
               THEN \* the SendMessage goes to the actor the address belongs to
                    UNCHANGED <<conn_mbox, send_reply>>
               ELSE IF conn_running = "stopped"
               THEN /\ send_reply' = MapInsert(send_reply, command_id, ReplyMailboxError)
                    /\ UNCHANGED conn_mbox
               ELSE /\ conn_mbox' = DoSend(conn_mbox, [type |-> "SendMessage",
                                           text |-> json_request, reply_to |-> command_id])
                    /\ UNCHANGED send_reply
            /\ handled' = Other
            /\ UNCHANGED sinks
    /\ UNCHANGED <<cmd_running, cmd_mbox, evt_mbox>>

\* the error the spawned future of Handler<SendCommand> maps a reply to
SendReplyError(reply) ==
    IF reply.tag = "MailboxError" THEN Some(ErrActor("ConnectionActor mailbox error"))
    ELSE IF reply.tag = "Err" THEN Some(ErrTransport(reply.err))
    ELSE None

\* Handler<SendCommand>: the .map closure run when send_future completes with reply
CmdSendResult(command_id, reply) ==
    /\ cmd_running
    /\ handled' = Other
    /\ LET err == SendReplyError(reply) IN
       IF err.tag = "Some" /\ command_id \in DOMAIN pending_requests
       THEN /\ pending_requests' = MapRemove(pending_requests, command_id)
            /\ timers' = timers \ {pending_requests[command_id].timeout_handle}
            /\ sinks' = ResultTxSend(sinks, command_id, err.v)
       ELSE UNCHANGED <<pending_requests, timers, sinks>>
    /\ UNCHANGED <<next_id, allocated, cmd_running, cmd_mbox, evt_mbox>>

\* faulty variant of Handler<CommandTimeout>: the record is left pending
CommandTimeoutKeepingRecord(command_id) ==
    /\ handled' = [op |-> "CommandTimeout", id |-> command_id]
    /\ UNCHANGED <<pending_requests, sinks>>
    /\ UNCHANGED <<next_id, allocated, send_reply, cmd_running, cmd_mbox, evt_mbox>>

\* faulty variant of Handler<CommandTimeout>: every pending record is timed out
CommandTimeoutOfAll(command_id) ==
    /\ handled' = [op |-> "CommandTimeout", id |-> command_id]
    /\ IF command_id \in DOMAIN pending_requests
       THEN /\ pending_requests' = EmptyMap
            /\ sinks' = [i \in DOMAIN sinks |->
                            IF i \in DOMAIN pending_requests
                            THEN Append(sinks[i], ErrTimeout) ELSE sinks[i]]
       ELSE UNCHANGED <<pending_requests, sinks>>
    /\ UNCHANGED <<next_id, allocated, send_reply, cmd_running, cmd_mbox, evt_mbox>>

\* Handler<CommandTimeout> for CommandActor
CommandTimeoutHandle(command_id) ==
    /\ handled' = [op |-> "CommandTimeout", id |-> command_id]
    /\ IF command_id \in DOMAIN pending_requests
       THEN /\ pending_requests' = MapRemove(pending_requests, command_id)
            /\ sinks' = ResultTxSend(sinks, command_id, ErrTimeout)
       ELSE UNCHANGED <<pending_requests, sinks>>
    /\ UNCHANGED <<next_id, allocated, send_reply, cmd_running, cmd_mbox, evt_mbox>>

\* the timer scheduled by ctx.notify_later(CommandTimeout(id), ..) fires
CommandTimeout(command_id) ==
    /\ cmd_running
    /\ command_id \in timers
    /\ timers' = timers \ {command_id}
    /\ CommandTimeoutHandle(command_id)

\* a CommandTimeout message for an id that is not pending is handled
CommandTimeoutStale(command_id) ==
    /\ cmd_running
    /\ command_id \notin DOMAIN pending_requests
    /\ UNCHANGED timers
    /\ CommandTimeoutHandle(command_id)

\* the sinks after `for (id, pending) in pending_requests.drain() { result_tx.send(Err(e)) }`
DrainSinks(e) ==
    [i \in DOMAIN sinks |->
        IF i \in DOMAIN pending_requests /\ i \notin rx_dropped
        THEN Append(sinks[i], e) ELSE sinks[i]]

\* the timers after cancel_future of every pending record's handle
DrainTimers == timers \ {pending_requests[i].timeout_handle : i \in DOMAIN pending_requests}

\* Handler<ConnectionStatusUpdate> for CommandActor
CmdConnectionStatusUpdate(state) ==
    /\ handled' = Other
    /\ IF state.tag = "Disconnected" /\ state.err.tag = "Some"
       THEN /\ sinks' = DrainSinks(ErrTransport(state.err.v))
            /\ timers' = DrainTimers
            /\ pending_requests' = EmptyMap
       ELSE UNCHANGED <<pending_requests, timers, sinks>>
    /\ UNCHANGED <<next_id, allocated, send_reply, cmd_running, evt_mbox>>


\* faulty variant of CommandActor::stopping: the actor stops without draining
\* pending_requests
CmdStoppingWithoutDrain ==
    /\ handled' = Other
    /\ cmd_running' = FALSE
    /\ UNCHANGED <<sinks, timers, pending_requests>>
    /\ UNCHANGED <<next_id, allocated, send_reply, evt_mbox>>

\* CommandActor::stopping, and the actor stops
CmdStopping ==
    /\ handled' = Other
    /\ sinks' = DrainSinks(ErrActor("CommandActor shut down"))
    /\ timers' = DrainTimers
    /\ pending_requests' = EmptyMap
    /\ cmd_running' = FALSE
    /\ UNCHANGED <<next_id, allocated, send_reply, evt_mbox>>

\* the CommandActor takes the next message of its mailbox
CmdHandleMailbox ==
    /\ cmd_running
    /\ cmd_mbox # <<>>
    /\ CASE Head(cmd_mbox).type = "Stop" ->
              CmdStopping /\ cmd_mbox' = <<>>
         [] Head(cmd_mbox).type = "ConnectionStatusUpdate" ->
              CmdConnectionStatusUpdate(Head(cmd_mbox).state) /\ cmd_mbox' = Tail(cmd_mbox)
         [] Head(cmd_mbox).type = "IncomingMessage" ->
              CmdIncomingMessage(Head(cmd_mbox).text) /\ cmd_mbox' = Tail(cmd_mbox)

\* do_send to the CommandActor: fails (and is only logged) when it has stopped
SendToCommandActor(mbox, msgs) == IF cmd_running THEN mbox \o msgs ELSE mbox

(***************************************************************************)
(* ConnectionActor and its connection task.                                *)
(***************************************************************************)
\* supervisor.do_send(ConnectionStatusUpdate(state)): fails (and is only logged)
\* when the supervisor has stopped
Notified(mbox, state) == IF sup_running THEN DoSend(mbox, state) ELSE mbox

\* ConnectionActor::notify_supervisor
notify_supervisor(state) == sup_mbox' = Notified(sup_mbox, state)

\* faulty variant of stopping: the state is set to Disconnecting whatever it was
StateAfterStoppingUnchecked(st) == Disconnecting

\* the state ConnectionActor::stopping leaves: Disconnecting unless the state
\* is already Disconnected or FailedToStart
StateAfterStopping(st) == IF ~IsTerminal(st) THEN Disconnecting ELSE st

\* Actor::started -> start_connection_task
ConnStarted ==
    /\ conn_running = "new"
    /\ conn_running' = "running"
    /\ conn_state' = Connecting
    /\ notify_supervisor(Connecting)
    /\ outgoing_tx' = TRUE
    /\ task' = "start"
    /\ UNCHANGED <<conn_mbox, outgoing, send_futs, send_reply, cmd_mbox>>

\* inbound texts waiting in the CommandActor's mailbox or forwarded to the EventActor
InFlight ==
    Cardinality({i \in DOMAIN cmd_mbox : cmd_mbox[i].type = "IncomingMessage"}) + Len(evt_mbox)

\* connection task: create_transport failed
TaskCreateFailed ==
    /\ task = "start"
    /\ conn_mbox' = DoSend(conn_mbox, [type |-> "TransportEvent",
                                       state |-> FailedToStart(InvalidUrl("bad url"))])
    /\ task' = "failed"
    /\ UNCHANGED <<conn_state, conn_running, outgoing_tx, outgoing, send_futs, send_reply,
                   sup_mbox, cmd_mbox>>

\* connection task: connect_internal succeeded within the timeout
TaskConnectOk ==
    /\ task = "start"
    /\ conn_mbox' = DoSend(conn_mbox, [type |-> "TransportEvent", state |-> Connected])
    /\ task' = "duplex"
    /\ UNCHANGED <<conn_state, conn_running, outgoing_tx, outgoing, send_futs, send_reply,
                   sup_mbox, cmd_mbox>>

\* connection task: connect_internal failed (e) or timed out (TransportTimeout)
TaskConnectErr(e) ==
    /\ task = "start"
    /\ conn_mbox' = DoSend(conn_mbox, [type |-> "TransportEvent",
                                       state |-> Disconnected(Some(e))])
    /\ task' = "failed"
    /\ UNCHANGED <<conn_state, conn_running, outgoing_tx, outgoing, send_futs, send_reply,
                   sup_mbox, cmd_mbox>>

\* read loop: transport.receive() yields Some(Ok(text))
TaskReceive(text) ==
    /\ task = "duplex"
    /\ IF message_handler = "CommandActor" /\ cmd_running
       THEN /\ cmd_mbox' = DoSend(cmd_mbox, [type |-> "IncomingMessage", text |-> text])
            /\ UNCHANGED <<conn_mbox, task>>
       ELSE /\ conn_mbox' = DoSend(conn_mbox, [type |-> "TransportEvent",
                    state |-> Disconnected(Some([kind |-> "Other",
                                                 text |-> "Message handler disconnected"]))])
            /\ task' = "closed"
            /\ UNCHANGED cmd_mbox
    /\ UNCHANGED <<conn_state, conn_running, outgoing_tx, outgoing, send_futs, send_reply,
                   sup_mbox>>

\* read loop: transport.receive() yields Some(Err(e)) or None (errOpt = None)
TaskReceiveEnd(errOpt) ==
    /\ task = "duplex"
    /\ conn_mbox' = DoSend(conn_mbox, [type |-> "TransportEvent",
                                       state |-> Disconnected(errOpt)])
    /\ task' = "closed"
    /\ UNCHANGED <<conn_state, conn_running, outgoing_tx, outgoing, send_futs, send_reply,
                   sup_mbox, cmd_mbox>>

\* write loop: outgoing_rx.recv() yields a message and transport.send succeeds
TaskWriteOk ==
    /\ task = "duplex"
    /\ outgoing # <<>>
    /\ outgoing' = Tail(outgoing)
    /\ UNCHANGED <<conn_state, conn_running, conn_mbox, outgoing_tx, task, send_futs,
                   send_reply, sup_mbox, cmd_mbox>>

\* faulty variant of the write loop: on a failed transport.send it ends without
\* reporting Disconnected
TaskWriteFailSilently ==
    /\ task = "duplex"
    /\ outgoing # <<>>
    /\ outgoing' = <<>>
    /\ task' = "closed"
    /\ UNCHANGED <<conn_state, conn_running, conn_mbox, outgoing_tx, send_futs, send_reply,
                   sup_mbox, cmd_mbox>>

\* write loop: transport.send fails; the loop ends and the task finishes
TaskWriteFail ==
    /\ task = "duplex"
    /\ outgoing # <<>>
    /\ outgoing' = <<>>
    /\ conn_mbox' = DoSend(conn_mbox, [type |-> "TransportEvent",
                                       state |-> Disconnected(Some(SendFailed("broken pipe")))])
    /\ task' = "closed"
    /\ UNCHANGED <<conn_state, conn_running, outgoing_tx, send_futs, send_reply,
                   sup_mbox, cmd_mbox>>

\* the position of the connection task once the actor's context is dropped
TaskDropped == IF task \in {"start", "failed"} THEN "failed" ELSE "closed"

\* senders of SendMessage still in the mailbox of a stopped actor get MailboxError
MailboxClosedReplies(mbox) ==
    LET waiting == {mbox[i].reply_to : i \in {j \in DOMAIN mbox : mbox[j].type = "SendMessage"}}
                   \cap Ids IN
    IF cmd_running
    THEN [i \in (DOMAIN send_reply) \cup waiting |->
             IF i \in waiting THEN ReplyMailboxError ELSE send_reply[i]]
    ELSE send_reply

\* the actor stops: mailbox closed, spawned connection task dropped
ConnStopped ==
    /\ conn_running' = "stopped"
    /\ send_reply' = MailboxClosedReplies(Tail(conn_mbox))
    /\ conn_mbox' = <<>>
    /\ task' = TaskDropped
    /\ outgoing' = <<>>

\* Handler<TransportEvent> for ConnectionActor
ConnTransportEvent(new_state) ==
    IF conn_state = new_state
    THEN /\ conn_mbox' = Tail(conn_mbox)
         /\ UNCHANGED <<conn_state, conn_running, outgoing_tx, task, outgoing, send_reply,
                        sup_mbox>>
    ELSE IF IsTerminal(new_state)
         THEN \* ctx.stop(): stopping() runs on the new state, then the actor stops
              /\ conn_state' = StateAfterStopping(new_state)
              /\ sup_mbox' = IF StateAfterStopping(new_state) = Disconnecting
                             THEN Notified(Notified(sup_mbox, new_state), Disconnecting)
                             ELSE Notified(sup_mbox, new_state)
              /\ outgoing_tx' = FALSE
              /\ ConnStopped
         ELSE /\ conn_state' = new_state
              /\ notify_supervisor(new_state)
              /\ conn_mbox' = Tail(conn_mbox)
              /\ UNCHANGED <<conn_running, outgoing_tx, task, outgoing, send_reply>>

\* Handler<SendMessage> for ConnectionActor: returns the ResponseFuture
ConnSendMessage(msg) ==
    /\ send_futs' = Append(send_futs, [reply_to |-> msg.reply_to, text |-> msg.text,
                                       current_state |-> conn_state, maybe_tx |-> outgoing_tx])
    /\ conn_mbox' = Tail(conn_mbox)
    /\ UNCHANGED <<conn_state, conn_running, outgoing_tx, task, outgoing, send_reply, sup_mbox>>

\* ConnectionActor::stopping on a stop request, and the actor stops
ConnStopping ==
    /\ outgoing_tx' = FALSE
    /\ conn_state' = StateAfterStopping(conn_state)
    /\ IF StateAfterStopping(conn_state) = Disconnecting
       THEN notify_supervisor(Disconnecting)
       ELSE UNCHANGED sup_mbox
    /\ ConnStopped

\* the ConnectionActor takes the next message of its mailbox
ConnHandleMailbox ==
    /\ conn_running = "running"
    /\ conn_mbox # <<>>
    /\ CASE Head(conn_mbox).type = "TransportEvent" ->
              ConnTransportEvent(Head(conn_mbox).state) /\ UNCHANGED send_futs
         [] Head(conn_mbox).type = "SendMessage" ->
              ConnSendMessage(Head(conn_mbox))
         [] Head(conn_mbox).type = "Stop" ->
              ConnStopping /\ UNCHANGED send_futs
    /\ UNCHANGED cmd_mbox

\* the result of the async block of Handler<SendMessage>
SendMessageResult(f) ==
    IF f.current_state = Connected
    THEN IF f.maybe_tx
         THEN IF task = "duplex"
              THEN ReplyOk
              ELSE ReplyErr(NotConnected("Message channel closed"))
         ELSE ReplyErr(NotConnected("Internal channel missing"))
    ELSE ReplyErr(NotConnected("Current state"))

\* the future reaches `tx.send(msg.0).await`
CallsTxSend(f) == f.current_state = Connected /\ f.maybe_tx

\* faulty variant of the channel: a waiting sender is served in any order
MayAcquireInAnyOrder(futs, i) == TRUE

\* tx.send acquires its slot of the channel: the futures are first polled in the
\* order they were spawned and the channel serves waiting senders in the order
\* they asked, so a sender is served once no earlier one is still asking
MayAcquire(futs, i) == \A j \in 1..(i - 1) : ~CallsTxSend(futs[j])

\* faulty variant of the enqueue: try_send, which fails when the channel is full
TxTrySend(f, chan) ==
    IF SendMessageResult(f) = ReplyOk /\ Len(chan) >= OutgoingCapacity
    THEN [ready |-> TRUE, reply |-> ReplyErr(NotConnected("Message channel closed")),
          chan |-> chan]
    ELSE [ready |-> TRUE, reply |-> SendMessageResult(f),
          chan |-> IF SendMessageResult(f) = ReplyOk THEN Append(chan, f.text) ELSE chan]

\* the async block of Handler<SendMessage> run on the channel chan: whether it
\* can complete now (tx.send(..).await waits while the channel is full), its
\* result and the channel after it
TxSend(f, chan) ==
    [ready |-> SendMessageResult(f) = ReplyOk => Len(chan) < OutgoingCapacity,
     reply |-> SendMessageResult(f),
     chan |-> IF SendMessageResult(f) = ReplyOk THEN Append(chan, f.text) ELSE chan]

\* the i-th ResponseFuture of a SendMessage completes
SendFutComplete(i) ==
    LET f == send_futs[i]
        r == TxSend(f, outgoing) IN
    /\ CallsTxSend(f) => MayAcquire(send_futs, i)
    /\ r.ready
    /\ send_futs' = [j \in 1..(Len(send_futs) - 1) |->
                        IF j < i THEN send_futs[j] ELSE send_futs[j + 1]]
    /\ outgoing' = r.chan
    /\ send_reply' = IF cmd_running /\ f.reply_to \in Ids
                     THEN MapInsert(send_reply, f.reply_to, r.reply)
                     ELSE send_reply
    /\ UNCHANGED <<conn_state, conn_running, conn_mbox, outgoing_tx, task, sup_mbox,
                   cmd_mbox>>

(***************************************************************************)
(* SupervisorActor.                                                        *)
(***************************************************************************)
\* do_send to the EventActor: fails (and is only logged) when it has stopped
SendToEventActor(mbox, msgs) == IF evt_running THEN mbox \o msgs ELSE mbox
\* do_send to the ConnectionActor
SendToConnectionActor(mbox, msgs) == IF conn_running # "stopped" THEN mbox \o msgs ELSE mbox

\* do_send to the ChromeBrowserActor: fails when it has stopped
SendToBrowserActor(mbox, msgs) ==
    IF br_running \in {"new", "running"} THEN mbox \o msgs ELSE mbox

StopMsg == [type |-> "Stop"]
ShutdownBrowserMsg == [type |-> "ShutdownBrowser"]

\* if let Some(addr) = self.browser_actors.remove("chrome") { addr.do_send(ShutdownBrowser) }
ShutdownBrowserActors ==
    /\ br_mbox' = SendToBrowserActor(br_mbox,
                      IF browser_actors THEN <<ShutdownBrowserMsg>> ELSE <<>>)
    /\ browser_actors' = FALSE

\* Handler<ConnectionStatusUpdate> for SupervisorActor
SupConnectionStatusUpdate(state) ==
    LET forward == IF sup.command_actor
                   THEN <<[type |-> "ConnectionStatusUpdate", state |-> state]>>
                   ELSE <<>>
        stops == /\ cmd_mbox' = SendToCommandActor(cmd_mbox,
                            forward \o (IF sup.command_actor THEN <<StopMsg>> ELSE <<>>))
                 /\ evt_mbox' = SendToEventActor(evt_mbox,
                            IF sup.event_actor THEN <<StopMsg>> ELSE <<>>)
                 /\ sup' = [connection_actor |-> FALSE, command_actor |-> FALSE,
                            event_actor |-> FALSE] IN
    IF state.tag = "Disconnected" /\ state.err.tag = "Some"
    THEN stops /\ ShutdownBrowserActors
    ELSE IF state.tag = "FailedToStart"
    THEN stops /\ UNCHANGED supAux
    ELSE /\ cmd_mbox' = SendToCommandActor(cmd_mbox, forward)
         /\ UNCHANGED <<evt_mbox, sup, supAux>>

\* Handler<StartBrowserActor> for SupervisorActor
SupStartBrowserActor ==
    IF browser_actors
    THEN UNCHANGED <<browser_actors, br_running>>
    ELSE /\ br_running' = "new"
         /\ browser_actors' = TRUE

\* Handler<ConnectionTerminated> for SupervisorActor; same_addr: msg.actor_addr is
\* the address the supervisor holds
SupConnectionTerminated(same_addr, error) ==
    IF sup.connection_actor /\ same_addr
    THEN IF error.tag = "Some"
         THEN /\ ShutdownBrowserActors
              /\ cmd_mbox' = SendToCommandActor(cmd_mbox,
                                 IF sup.command_actor THEN <<StopMsg>> ELSE <<>>)
              /\ evt_mbox' = SendToEventActor(evt_mbox,
                                 IF sup.event_actor THEN <<StopMsg>> ELSE <<>>)
              /\ sup' = [connection_actor |-> FALSE, command_actor |-> FALSE,
                         event_actor |-> FALSE]
         ELSE /\ sup' = [sup EXCEPT !.connection_actor = FALSE]
              /\ UNCHANGED <<cmd_mbox, evt_mbox, supAux>>
    ELSE UNCHANGED <<cmd_mbox, evt_mbox, sup, supAux>>

\* the SupervisorActor takes the next status update of its mailbox
SupHandleMailbox ==
    /\ sup_running
    /\ sup_mbox # <<>>
    /\ sup_mbox' = Tail(sup_mbox)
    /\ SupConnectionStatusUpdate(Head(sup_mbox))
    /\ UNCHANGED <<sup_running, conn_mbox>>

\* SupervisorActor::stopping, and the actor stops
SupStopping ==
    /\ sup_running
    /\ sup_running' = FALSE
    /\ sup_mbox' = <<>>
    /\ ShutdownBrowserActors
    /\ cmd_mbox' = SendToCommandActor(cmd_mbox, IF sup.command_actor THEN <<StopMsg>> ELSE <<>>)
    /\ evt_mbox' = SendToEventActor(evt_mbox, IF sup.event_actor THEN <<StopMsg>> ELSE <<>>)
    /\ conn_mbox' = SendToConnectionActor(conn_mbox,
                        IF sup.connection_actor THEN <<StopMsg>> ELSE <<>>)
    /\ sup' = [connection_actor |-> FALSE, command_actor |-> FALSE, event_actor |-> FALSE]

(***************************************************************************)
(* EventActor.                                                             *)
(***************************************************************************)
Subscribers == {"S1", "S2", "S3"}
EventNames == {"Page.loadEventFired", "Runtime.consoleAPICalled"}
SessionIds == {None, Some("sess-A")}

\* self.subscriptions.get(&key), as a set (empty when the key is absent)
SubscribersOf(subs, key) == IF key \in DOMAIN subs THEN subs[key] ELSE {}

\* self.subscriptions.entry(key).or_default().insert(msg.subscriber)
SubscriptionsAfterSubscribe(subs, key, subscriber) ==
    MapInsert(subs, key, SubscribersOf(subs, key) \cup {subscriber})

\* Handler<Subscribe> for EventActor
Subscribe(event_name, session_id, subscriber) ==
    LET key == <<event_name, session_id>> IN
    /\ evt_running
    /\ subscriptions' = SubscriptionsAfterSubscribe(subscriptions, key, subscriber)
    /\ UNCHANGED <<evt_mbox, evt_running, sink_alive, delivered>>

\* faulty variant of the removal: a set left empty stays in the map
SubscriptionsAfterUnsubscribeKeepingEmpty(subs, key, subscriber) ==
    IF key \in DOMAIN subs
    THEN [subs EXCEPT ![key] = @ \ {subscriber}]
    ELSE subs

\* subscribers.remove(&msg.subscriber), and the key is removed when no
\* subscriber is left
SubscriptionsAfterUnsubscribe(subs, key, subscriber) ==
    IF key \in DOMAIN subs
    THEN IF subs[key] \ {subscriber} = {}
         THEN MapRemove(subs, key)
         ELSE [subs EXCEPT ![key] = @ \ {subscriber}]
    ELSE subs

\* Handler<Unsubscribe> for EventActor
Unsubscribe(event_name, session_id, subscriber) ==
    LET key == <<event_name, session_id>> IN
    /\ evt_running
    /\ subscriptions' = SubscriptionsAfterUnsubscribe(subscriptions, key, subscriber)
    /\ UNCHANGED <<evt_mbox, evt_running, sink_alive, delivered>>

\* faulty variant of recipients_to_notify: the wildcard key is not looked up
RecipientsOfSpecificKey(subs, event) == SubscribersOf(subs, <<event.method, event.session_id>>)

\* recipients_to_notify of Handler<ProtocolEvent>
RecipientsToNotify(subs, event) ==
    LET specific_key == <<event.method, event.session_id>>
        wildcard_key == <<event.method, None>> IN
    SubscribersOf(subs, specific_key)
    \cup (IF specific_key # wildcard_key THEN SubscribersOf(subs, wildcard_key) ELSE {})

\* recipient.do_send(event.clone()): the event joins the recipient's mailbox unless it is closed
Deliver(mbox, event, alive) == IF alive THEN Append(mbox, event) ELSE mbox

\* faulty variant of the dispatch loop: the recipients of the two keys are
\* collected without removing duplicates
RecipientCopiesWithoutDedup(subs, event, s) ==
    LET specific_key == <<event.method, event.session_id>>
        wildcard_key == <<event.method, None>> IN
    (IF s \in SubscribersOf(subs, specific_key) THEN 1 ELSE 0)
    + (IF specific_key # wildcard_key /\ s \in SubscribersOf(subs, wildcard_key) THEN 1 ELSE 0)

\* for recipient in recipients_to_notify: the number of do_send calls a
\* subscriber gets for one event (recipients_to_notify is a HashSet)
RecipientCopies(subs, event, s) ==
    IF s \in RecipientsToNotify(subs, event) THEN 1 ELSE 0

\* faulty variant of Handler<ProtocolEvent>: one do_send for each key a
\* subscriber is found under
ProtocolEventPerKey(event) ==
    /\ delivered' = [s \in Subscribers |->
                        LET n == RecipientCopiesWithoutDedup(subscriptions, event, s)
                            once == Deliver(delivered[s], event, s \in sink_alive) IN
                        IF n = 0 THEN delivered[s]
                        ELSE IF n = 1 THEN once
                        ELSE Deliver(once, event, s \in sink_alive)]
    /\ UNCHANGED <<subscriptions, evt_running, sink_alive>>

\* Handler<ProtocolEvent> for EventActor
ProtocolEvent(event) ==
    /\ delivered' = [s \in Subscribers |->
                        LET n == RecipientCopies(subscriptions, event, s)
                            once == Deliver(delivered[s], event, s \in sink_alive) IN
                        IF n = 0 THEN delivered[s]
                        ELSE IF n = 1 THEN once
                        ELSE Deliver(once, event, s \in sink_alive)]
    /\ UNCHANGED <<subscriptions, evt_running, sink_alive>>

\* EventActor::stopping, and the actor stops
EvtStopping ==
    /\ subscriptions' = EmptyMap
    /\ evt_running' = FALSE
    /\ UNCHANGED <<sink_alive, delivered>>

\* the EventActor takes the next message of its mailbox
EvtHandleMailbox ==
    /\ evt_running
    /\ evt_mbox # <<>>
    /\ CASE Head(evt_mbox).type = "ProtocolEvent" ->
              ProtocolEvent(Head(evt_mbox).event) /\ evt_mbox' = Tail(evt_mbox)
         [] Head(evt_mbox).type = "Stop" ->
              EvtStopping /\ evt_mbox' = <<>>

\* a subscriber actor stops: its mailbox closes
SubscriberStops(s) ==
    /\ s \in sink_alive
    /\ sink_alive' = sink_alive \ {s}
    /\ UNCHANGED <<evt_mbox, evt_running, subscriptions, delivered>>

(***************************************************************************)
(* Specification Spec: the CommandActor and what it exchanges messages     *)
(* with.  The initial state is the one StartCoreActors leaves: the core    *)
(* actors created, the ConnectionActor not yet started.                    *)
(*                                                                         *)
(* The CommandActor's handlers are the actions.  The ConnectionActor is    *)
(* seen through the states it publishes and the answers it gives to        *)
(* SendMessage: every published state is forwarded by the supervisor's     *)
(* Handler<ConnectionStatusUpdate> in the step that publishes it, and the  *)
(* answer to a SendMessage is drawn from the answers Handler<SendMessage>  *)
(* can give when the .map closure runs.                                    *)
(***************************************************************************)

\* no receiver dropped, the transport not connected, nothing observed yet
AuxInit ==
    /\ rx_dropped = {}
    /\ ws_sink = FALSE
    /\ ws_source = FALSE
    /\ ws_discards = 0
    /\ ws_ended = FALSE
    /\ sent_raw = 0
    /\ accepted = <<>>
    /\ wire = <<>>
    /\ arrived = <<>>
    /\ forwarded = <<>>
    /\ pending_at_send_failure = None
    /\ browser_actors = FALSE
    /\ sup_signals = 0
    /\ br_running = "none"
    /\ br_mbox = <<>>
    /\ page_actors = {}
    /\ pages = <<>>
    /\ target_sessions = EmptyMap
    /\ create_page = [pc |-> "idle"]
    /\ br_commands = <<>>
    /\ br_replies = <<>>
    /\ br_observed = <<>>

\* the component specifications take the CommandActor as constructed with the
\* address of the ConnectionActor (the connection_actor argument of
\* CommandActor::new) and the ConnectionActor with the CommandActor as its
\* message handler; what Handler<StartCoreActors> passes is SupStartCoreActors
CoreWired ==
    /\ connection_actor = "ConnectionActor"
    /\ message_handler = "CommandActor"

cmdRest == <<next_id, pending_requests, timers, sinks, allocated, cmd_running>>
connRest == <<conn_state, conn_running, outgoing_tx, task, outgoing, send_futs>>
evtRest == <<evt_running, subscriptions, sink_alive, delivered>>

Init ==
    /\ next_id = 1
    /\ pending_requests = EmptyMap
    /\ timers = {}
    /\ sinks = [i \in Ids |-> <<>>]
    /\ allocated = <<>>
    /\ send_reply = EmptyMap
    /\ cmd_running = TRUE
    /\ cmd_mbox = <<>>
    /\ handled = Other
    /\ conn_state = Idle
    /\ conn_running = "new"
    /\ conn_mbox = <<>>
    /\ outgoing_tx = FALSE
    /\ task = "none"
    /\ outgoing = <<>>
    /\ send_futs = <<>>
    /\ sup = [connection_actor |-> TRUE, command_actor |-> TRUE, event_actor |-> TRUE]
    /\ sup_running = TRUE
    /\ sup_mbox = <<>>
    /\ evt_mbox = <<>>
    /\ evt_running = TRUE
    /\ subscriptions = EmptyMap
    /\ sink_alive = Subscribers
    /\ delivered = [s \in Subscribers |-> <<>>]
    /\ arrivals = 0
    /\ AuxInit
    /\ CoreWired

\* the states the ConnectionActor can publish next: Connecting on start, then what
\* the connection task reports through Handler<TransportEvent>
PublishedNext(state) ==
    CASE state = Idle -> {Connecting}
      [] state = Connecting ->
            {Connected, FailedToStart(InvalidUrl("bad url"))}
            \cup {Disconnected(Some(e)) : e \in TransportErrors}
      [] state = Connected ->
            {Disconnected(None)} \cup {Disconnected(Some(e)) : e \in TransportErrors}
      [] OTHER -> {}

\* the answers connection_actor.send(SendMessage) can have for the .map closure
RepliesIn(state, running) ==
    (IF state.tag \in {"Connected", "Disconnected", "Disconnecting"} THEN {ReplyOk} ELSE {})
    \cup {ReplyErr(NotConnected("Current state"))}
    \cup (IF running = "stopped" THEN {ReplyMailboxError} ELSE {})

\* The EventActor's handling of a forwarded message changes nothing another actor
\* reads, so it is taken before any other step.
EvtIdle == evt_mbox = <<>> \/ ~evt_running

\* a caller's SendCommand is handled
StepSendCommand ==
    /\ EvtIdle
    /\ \E session_id \in Sessions, method \in Methods, params \in Params, serOk \in BOOLEAN :
          SendCommand(session_id, method, params, serOk)
    /\ UNCHANGED <<connRest, supVars, evtRest, arrivals, auxVars>>

\* send_future of an earlier SendCommand completes and its .map closure runs
StepSendResult ==
    /\ EvtIdle
    /\ \/ \E i \in DOMAIN conn_mbox, reply \in RepliesIn(conn_state, conn_running) :
             /\ CmdSendResult(conn_mbox[i].reply_to, reply)
             /\ conn_mbox' = [j \in 1..(Len(conn_mbox) - 1) |->
                                 IF j < i THEN conn_mbox[j] ELSE conn_mbox[j + 1]]
             /\ UNCHANGED send_reply
       \/ \E id \in DOMAIN send_reply :
             /\ CmdSendResult(id, send_reply[id])
             /\ send_reply' = MapRemove(send_reply, id)
             /\ UNCHANGED conn_mbox
    /\ UNCHANGED <<connRest, supVars, evtRest, arrivals, auxVars>>

\* a timer scheduled by notify_later fires
StepCommandTimeout ==
    /\ \E id \in Ids : CommandTimeout(id)
    /\ UNCHANGED <<connVars, supVars, evtRest, arrivals, auxVars>>

\* a CommandTimeout for an id that is not pending
StepCommandTimeoutStale ==
    /\ EvtIdle
    /\ \E id \in Ids : CommandTimeoutStale(id)
    /\ UNCHANGED <<connVars, supVars, evtRest, arrivals, auxVars>>

\* a text of the read loop reaches Handler<IncomingMessage>
StepIncomingMessage ==
    /\ EvtIdle
    /\ cmd_running
    /\ conn_state.tag \in {"Connected", "Disconnected", "Disconnecting"}
    /\ \E text \in InboundTexts :
          /\ CmdIncomingMessage(text)
    /\ UNCHANGED <<cmd_mbox, connVars, supVars, evtRest, arrivals, auxVars>>

\* the CommandActor takes the next message the supervisor sent it
StepCmdMailbox ==
    /\ EvtIdle
    /\ CmdHandleMailbox
    /\ UNCHANGED <<connVars, supVars, evtRest, arrivals, auxVars>>

\* the ConnectionActor publishes its next state; the supervisor forwards it
StepConnectionStatus ==
    /\ EvtIdle
    /\ conn_running # "stopped"
    /\ \E state \in PublishedNext(conn_state) :
          /\ conn_state' = state
          /\ conn_running' = IF IsTerminal(state) THEN "stopped" ELSE "running"
          /\ IF sup_running
             THEN SupConnectionStatusUpdate(state)
             ELSE UNCHANGED <<cmd_mbox, evt_mbox, sup, supAux>>
    /\ handled' = Other
    /\ UNCHANGED <<cmdRest, send_reply, conn_mbox, outgoing_tx, task, outgoing, send_futs,
                   sup_running, sup_mbox, evtRest, arrivals, auxNoSup>>

\* the supervisor stops: SupervisorActor::stopping; the ConnectionActor, told to
\* stop, runs ConnectionActor::stopping
StepSupStopping ==
    /\ EvtIdle
    /\ sup_running
    /\ sup_running' = FALSE
    /\ cmd_mbox' = SendToCommandActor(cmd_mbox, IF sup.command_actor THEN <<StopMsg>> ELSE <<>>)
    /\ evt_mbox' = SendToEventActor(evt_mbox, IF sup.event_actor THEN <<StopMsg>> ELSE <<>>)
    /\ sup' = [connection_actor |-> FALSE, command_actor |-> FALSE, event_actor |-> FALSE]
    /\ ShutdownBrowserActors
    /\ IF sup.connection_actor /\ conn_running # "stopped"
       THEN /\ conn_running' = "stopped"
            /\ conn_state' = IF IsTerminal(conn_state) THEN conn_state ELSE Disconnecting
       ELSE UNCHANGED <<conn_running, conn_state>>
    /\ handled' = Other
    /\ UNCHANGED <<cmdRest, send_reply, conn_mbox, outgoing_tx, task, outgoing, send_futs,
                   sup_mbox, evtRest, arrivals, auxNoSup>>

\* the EventActor takes the next message of its mailbox
StepEvtMailbox ==
    /\ EvtHandleMailbox
    /\ handled' = Other
    /\ UNCHANGED <<cmdVars, connVars, supVars, arrivals, auxVars>>

Next ==
    \/ StepSendCommand
    \/ StepSendResult
    \/ StepCommandTimeout
    \/ StepCommandTimeoutStale
    \/ StepIncomingMessage
    \/ StepCmdMailbox
    \/ StepConnectionStatus
    \/ StepSupStopping
    \/ StepEvtMailbox

Spec == Init /\ [][Next]_vars

TypeOK ==
    /\ next_id \in 1..(MaxId + 1)
    /\ DOMAIN pending_requests \subseteq Ids
    /\ timers \subseteq Ids

(***************************************************************************)
(* Properties of the CommandActor (Spec).                                  *)
(***************************************************************************)

\* the ids the instance has allocated so far, in order
AllocatedIds == [k \in DOMAIN allocated |-> allocated[k].id]

\* C1: the ids one CommandActor allocates start at 1, each is strictly greater
\* than every id allocated before it (so no id repeats), and the next id to be
\* allocated is greater than all of them -- whether the earlier request was
\* resolved, is still pending, or failed to serialize.
C1_IdsStrictlyIncreasing ==
    /\ allocated # <<>> => AllocatedIds[1] = 1
    /\ \A j, k \in DOMAIN allocated : j < k => AllocatedIds[j] < AllocatedIds[k]
    /\ \A k \in DOMAIN allocated : AllocatedIds[k] < next_id

\* two ids allocated: the first to a command whose serialization failed, the
\* second to a command that was then answered
C1_Witness ==
    /\ Len(allocated) = 2
    /\ ~allocated[1].accepted
    /\ allocated[2].accepted
    /\ sinks[allocated[2].id] # <<>>
    /\ sinks[allocated[2].id][1].kind = "Ok"

\* C2: the sink of every accepted command holds at most one value, whatever the
\* order of response, timeout, SendMessage failure, disconnect and stop; and a
\* step that handles a response with id i resolves at most the sink of i, once.
C2_AtMostOneValue ==
    /\ [](\A k \in DOMAIN allocated :
            allocated[k].accepted => Len(sinks[allocated[k].id]) <= 1)
    /\ [][handled'.op = "response" =>
             /\ \A j \in Ids \ {handled'.id} : sinks'[j] = sinks[j]
             /\ Len(sinks'[handled'.id]) <= Len(sinks[handled'.id]) + 1
             /\ Cardinality(DOMAIN pending_requests \ DOMAIN pending_requests') <= 1]_vars

\* command 1 was answered, then the connection dropped with an error and the actor
\* stopped: its sink still holds the one answer
C2_Witness ==
    /\ allocated # <<>>
    /\ allocated[1].accepted
    /\ Len(sinks[1]) = 1
    /\ sinks[1][1].kind = "Ok"
    /\ conn_state.tag = "Disconnected"
    /\ ~cmd_running

\* C4 (as stated): a command accepted while the connection is Connected gets
\* no outcome other than Ok, Protocol, Timeout or Transport.
C4_OnlyFourOutcomes ==
    \A k \in DOMAIN allocated :
        (allocated[k].accepted /\ allocated[k].connected) =>
            \A j \in DOMAIN sinks[allocated[k].id] :
                sinks[allocated[k].id][j].kind \in {"Ok", "Protocol", "Timeout", "Transport"}

\* the outcome prescribed for a response text: Ok(result), Ok(null) when result
\* is omitted, Protocol{code, message, data} when there is an error object
PrescribedOutcome(text) ==
    IF "error" \in DOMAIN text.obj
    THEN [kind |-> "Protocol",
          code |-> Some(text.obj.error.code),
          message |-> text.obj.error.message,
          data |-> IF text.obj.error.data = None
                   THEN None
                   ELSE Some(text.obj.error.data.v.json)]
    ELSE IF "result" \in DOMAIN text.obj
         THEN [kind |-> "Ok", value |-> text.obj.result]
         ELSE [kind |-> "Ok", value |-> [json |-> "null"]]

\* C5: a step that handles a response whose id is pending removes that record,
\* cancels its timer and appends the prescribed outcome to its sink; the other
\* records, timers and sinks and next_id are unchanged, and the map is empty
\* afterwards when that record was the only one.
C5_ResponseResolvesPending ==
    [][(handled'.op = "response" /\ handled'.id \in DOMAIN pending_requests) =>
          /\ DOMAIN pending_requests' = DOMAIN pending_requests \ {handled'.id}
          /\ \A j \in DOMAIN pending_requests' : pending_requests'[j] = pending_requests[j]
          /\ timers' = timers \ {handled'.id}
          /\ handled'.id \notin timers'
          /\ sinks' = [sinks EXCEPT
                          ![handled'.id] = Append(@, PrescribedOutcome(handled'.text))]
          /\ next_id' = next_id
          /\ (DOMAIN pending_requests = {handled'.id} => pending_requests' = EmptyMap)]_vars

\* the only pending request was just answered with the error object of code
\* -32601: its sink holds that Protocol error and the map is empty
C5_Witness ==
    /\ handled.op = "response"
    /\ "error" \in DOMAIN handled.text.obj
    /\ sinks[handled.id] = <<ErrProtocol(Some(-32601), "no such method", None)>>
    /\ pending_requests = EmptyMap
    /\ handled.id \notin timers

\* C6: a step that handles a response whose id is not pending resolves no sink
\* and leaves pending_requests, the timers and next_id as they were.
C6_UnknownIdDropped ==
    [][(handled'.op = "response" /\ handled'.id \notin DOMAIN pending_requests) =>
          UNCHANGED <<sinks, pending_requests, timers, next_id>>]_vars

\* a reply for command 1 was handled after command 1 had timed out, while
\* command 2 was pending: sink 1 holds only the Timeout, command 2 still pends
C6_Witness ==
    /\ handled.op = "response"
    /\ handled.id = 1
    /\ sinks[1] = <<ErrTimeout>>
    /\ 2 \in DOMAIN pending_requests
    /\ sinks[2] = <<>>

\* the transport error C7 prescribes for a connection state
PrescribedTransportError(state, e) ==
    IF state.tag = "FailedToStart" THEN e = state.err
    ELSE IF state.err.tag = "Some" THEN e = state.err.v
    ELSE e.kind = "NotConnected"

\* C7 (as stated): when the CommandActor handles ConnectionStatusUpdate with
\* Disconnected(err) or FailedToStart(err), every pending timer is cancelled,
\* every pending sink gets a transport error (err, or a NotConnected when there
\* is none) and pending_requests is empty afterwards.
C7_TerminalStateFailsPending ==
    [][(/\ cmd_running
        /\ cmd_mbox # <<>>
        /\ Head(cmd_mbox).type = "ConnectionStatusUpdate"
        /\ Head(cmd_mbox).state.tag \in {"Disconnected", "FailedToStart"}
        /\ cmd_mbox' = Tail(cmd_mbox)) =>
          /\ pending_requests' = EmptyMap
          /\ \A i \in DOMAIN pending_requests :
                /\ i \notin timers'
                /\ Len(sinks'[i]) = Len(sinks[i]) + 1
                /\ sinks'[i][Len(sinks'[i])].kind = "Transport"
                /\ PrescribedTransportError(Head(cmd_mbox).state,
                                            sinks'[i][Len(sinks'[i])].err)]_vars

\* C8: a step that handles CommandTimeout(id) for a pending id removes that
\* record only and appends Timeout to its sink only; next_id and the connection
\* state are unchanged; for an id that is not pending nothing of the
\* CommandActor changes.
C8_TimeoutIsLocal ==
    [][handled'.op = "CommandTimeout" =>
          /\ next_id' = next_id
          /\ conn_state' = conn_state
          /\ conn_running' = conn_running
          /\ cmd_running' = cmd_running
          /\ IF handled'.id \in DOMAIN pending_requests
             THEN /\ DOMAIN pending_requests' = DOMAIN pending_requests \ {handled'.id}
                  /\ \A j \in DOMAIN pending_requests' :
                        pending_requests'[j] = pending_requests[j]
                  /\ timers' = timers \ {handled'.id}
                  /\ sinks' = [sinks EXCEPT ![handled'.id] = Append(@, ErrTimeout)]
             ELSE UNCHANGED cmdVars]_vars

\* command 1 just timed out while the connection was Connected and command 2 was
\* pending: command 2 still pends with its timer, the connection is Connected
C8_Witness ==
    /\ handled = [op |-> "CommandTimeout", id |-> 1]
    /\ sinks[1] = <<ErrTimeout>>
    /\ 2 \in DOMAIN pending_requests
    /\ 2 \in timers
    /\ sinks[2] = <<>>
    /\ conn_state = Connected

(***************************************************************************)
(* Specification LiveSpec: Spec together with the one scheduling           *)
(* assumption about timers: a CommandTimeout scheduled by notify_later is  *)
(* delivered by the actor's context unless cancel_future removed it or the *)
(* actor stopped.                                                          *)
(***************************************************************************)
TimerFires(id) ==
    /\ CommandTimeout(id)
    /\ UNCHANGED <<connVars, supVars, evtRest, arrivals, auxVars>>

LiveSpec == Spec /\ \A id \in Ids : WF_vars(TimerFires(id))

\* C3: every record registered in pending_requests is eventually removed, and
\* when it is gone its sink holds its one value (from a response, the timeout,
\* a send failure, a connection loss or the actor stopping), given that
\* scheduled timers fire.
C3_EventuallyResolved ==
    \A i \in Ids :
        (i \in DOMAIN pending_requests) ~>
            (i \notin DOMAIN pending_requests /\ Len(sinks[i]) = 1)

\* both commands were registered and are pending no more: one timed out, the
\* other was failed by the loss of the connection
C3_Witness ==
    /\ Len(allocated) = 2
    /\ \A k \in DOMAIN allocated : allocated[k].accepted
    /\ pending_requests = EmptyMap
    /\ \E i \in Ids : sinks[i] = <<ErrTimeout>>
    /\ \E i \in Ids : sinks[i] = <<ErrTransport(ConnectionFailed("reset"))>>

(***************************************************************************)
(* Specification SpecEvt: the path of an event from the read loop of the   *)
(* connection task through the CommandActor's mailbox and handle_event to  *)
(* the EventActor and the subscribers' mailboxes, with subscriptions       *)
(* changing meanwhile.  The initial state is the one reached once the      *)
(* connection is established and no command has been sent.                 *)
(***************************************************************************)
InitEvt ==
    /\ next_id = 1
    /\ pending_requests = EmptyMap
    /\ timers = {}
    /\ sinks = [i \in Ids |-> <<>>]
    /\ allocated = <<>>
    /\ send_reply = EmptyMap
    /\ cmd_running = TRUE
    /\ cmd_mbox = <<>>
    /\ handled = Other
    /\ conn_state = Connected
    /\ conn_running = "running"
    /\ conn_mbox = <<>>
    /\ outgoing_tx = TRUE
    /\ task = "duplex"
    /\ outgoing = <<>>
    /\ send_futs = <<>>
    /\ sup = [connection_actor |-> TRUE, command_actor |-> TRUE, event_actor |-> TRUE]
    /\ sup_running = TRUE
    /\ sup_mbox = <<>>
    /\ evt_mbox = <<>>
    /\ evt_running = TRUE
    /\ subscriptions = EmptyMap
    /\ sink_alive = Subscribers
    /\ delivered = [s \in Subscribers |-> <<>>]
    /\ arrivals = 0
    /\ AuxInit
    /\ CoreWired

\* the n-th text of the connection, when it is an event: its params carry n
NumberedEventTexts(n) ==
    { JsonText([method |-> "Page.loadEventFired", params |-> Value(ToString(n))]),
      JsonText([method |-> "Page.loadEventFired", params |-> Value(ToString(n)),
                sessionId |-> "sess-A"]) }

\* the number of subscriptions held
SubscriptionCount(subs) ==
    Cardinality({<<key, s>> \in (DOMAIN subs) \X Subscribers : s \in subs[key]})

\* the read loop receives the next text of the connection and sends it on
EvtReceive ==
    /\ arrivals < MaxEvents
    /\ arrivals' = arrivals + 1
    /\ \E text \in NumberedEventTexts(arrivals + 1) : TaskReceive(text)
    /\ UNCHANGED <<next_id, pending_requests, timers, sinks, allocated, cmd_running, handled,
                   sup, sup_running, evtVars, auxVars>>

\* the CommandActor handles the next IncomingMessage of its mailbox
EvtForward ==
    /\ CmdHandleMailbox
    /\ UNCHANGED <<connVars, supVars, evtRest, arrivals, auxVars>>

\* the EventActor handles the next ProtocolEvent of its mailbox
EvtPublish ==
    /\ EvtHandleMailbox
    /\ UNCHANGED <<cmdVars, handled, connVars, supVars, arrivals, auxVars>>

\* a Subscribe message is handled
EvtSubscribe ==
    /\ \E event_name \in EventNames, session_id \in SessionIds, subscriber \in Subscribers :
          /\ SubscriptionCount(subscriptions) < MaxSubs
          /\ Subscribe(event_name, session_id, subscriber)
    /\ UNCHANGED <<cmdVars, handled, connVars, supVars, arrivals, auxVars>>

\* an Unsubscribe message is handled
EvtUnsubscribe ==
    /\ \E event_name \in EventNames, session_id \in SessionIds, subscriber \in Subscribers :
          Unsubscribe(event_name, session_id, subscriber)
    /\ UNCHANGED <<cmdVars, handled, connVars, supVars, arrivals, auxVars>>

\* a subscriber stops
EvtSubscriberStops ==
    /\ \E s \in Subscribers : SubscriberStops(s)
    /\ UNCHANGED <<cmdVars, handled, connVars, supVars, arrivals, auxVars>>

NextEvt ==
    \/ EvtReceive
    \/ EvtForward
    \/ EvtPublish
    \/ EvtSubscribe
    \/ EvtUnsubscribe
    \/ EvtSubscriberStops

SpecEvt == InitEvt /\ [][NextEvt]_vars

\* the sinks C9 prescribes for an event, given the subscriptions at publication
PrescribedRecipients(subs, event) ==
    {s \in Subscribers :
        \/ <<event.method, event.session_id>> \in DOMAIN subs
             /\ s \in subs[<<event.method, event.session_id>>]
        \/ /\ event.session_id # None
           /\ <<event.method, None>> \in DOMAIN subs
           /\ s \in subs[<<event.method, None>>]}

\* C9: the step in which the EventActor handles a ProtocolEvent (name, session)
\* appends exactly one copy of it to the mailbox of every sink subscribed at
\* that moment under (name, session) or, when session is not None, under
\* (name, None), and leaves the mailbox of every other sink as it was; a sink
\* whose mailbox is closed takes nothing.
C9_FanOut ==
    [][(/\ evt_running
        /\ evt_mbox # <<>>
        /\ Head(evt_mbox).type = "ProtocolEvent"
        /\ evt_mbox' = Tail(evt_mbox)) =>
          \A s \in Subscribers :
             delivered'[s] =
                IF s \in PrescribedRecipients(subscriptions, Head(evt_mbox).event)
                   /\ s \in sink_alive
                THEN Append(delivered[s], Head(evt_mbox).event)
                ELSE delivered[s]]_vars

\* with S1 under ("Page.loadEventFired", "sess-A"), S2 under
\* ("Page.loadEventFired", None) and S3 under ("Runtime.consoleAPICalled", None),
\* the event ("Page.loadEventFired", "sess-A") was published: S1 and S2 hold one
\* copy each, S3 holds nothing
C9_Witness ==
    /\ subscriptions =
          [key \in {<<"Page.loadEventFired", Some("sess-A")>>,
                    <<"Page.loadEventFired", None>>,
                    <<"Runtime.consoleAPICalled", None>>} |->
              IF key = <<"Page.loadEventFired", Some("sess-A")>> THEN {"S1"}
              ELSE IF key = <<"Page.loadEventFired", None>> THEN {"S2"}
              ELSE {"S3"}]
    /\ Len(delivered["S1"]) = 1
    /\ delivered["S1"][1].method = "Page.loadEventFired"
    /\ delivered["S1"][1].session_id = Some("sess-A")
    /\ delivered["S2"] = delivered["S1"]
    /\ delivered["S3"] = <<>>

\* the position in the connection's inbound stream of the text an event came from
ArrivalNumber(event) == CHOOSE n \in 1..MaxEvents : ToString(n) = event.params.json

\* C10: in every subscriber's mailbox, and in the EventActor's mailbox before
\* it, events stand in the order their texts arrived on the connection: an
\* earlier text's event is never behind a later one's.
C10_PerSinkFifo ==
    /\ \A s \in Subscribers : \A j, k \in DOMAIN delivered[s] :
          j < k => ArrivalNumber(delivered[s][j]) < ArrivalNumber(delivered[s][k])
    /\ \A j, k \in DOMAIN evt_mbox :
          j < k => ArrivalNumber(evt_mbox[j].event) < ArrivalNumber(evt_mbox[k].event)

\* two events matching S1 arrived one after the other and both reached it
C10_Witness ==
    /\ Len(delivered["S1"]) = 2
    /\ ArrivalNumber(delivered["S1"][1]) = 1
    /\ ArrivalNumber(delivered["S1"][2]) = 2

(***************************************************************************)
(* Specification SpecConn: the ConnectionActor with its connection task,   *)
(* the supervisor's mailbox and the CommandActor as the sender of          *)
(* SendMessage and the receiver of IncomingMessage, message by message.    *)
(***************************************************************************)
connFrameCore == <<next_id, pending_requests, timers, sinks, allocated, cmd_running, handled,
                   sup, sup_running, evtVars, arrivals>>
connFrame == <<connFrameCore, auxVars>>
supFrame == <<next_id, pending_requests, timers, sinks, allocated, send_reply, cmd_running,
              handled, conn_state, conn_running, outgoing_tx, task, outgoing, send_futs,
              evtRest, arrivals, auxNoSup>>

\* texts the peer sends: a response and an event
ConnTexts ==
    { JsonText([id |-> 1, result |-> Value("{\"product\":\"X/1.0\"}")]),
      JsonText([method |-> "Page.loadEventFired", params |-> Value("{}")]) }

\* the ConnectionActor starts
ConnStart == ConnStarted /\ UNCHANGED connFrame

\* the connection task reports the outcome of creating and connecting the transport
ConnTaskConnect ==
    /\ \/ TaskCreateFailed
       \/ TaskConnectOk
       \/ \E e \in TransportErrors \cup {TransportTimeout} : TaskConnectErr(e)
    /\ UNCHANGED connFrame

\* the read loop receives a text
ConnReceive ==
    /\ InFlight < MaxInbox
    /\ \E text \in ConnTexts : TaskReceive(text)
    /\ UNCHANGED connFrame

\* the read loop ends: receive error or close by the peer
ConnReceiveEnd ==
    /\ \E errOpt \in {None} \cup {Some(e) : e \in TransportErrors} : TaskReceiveEnd(errOpt)
    /\ UNCHANGED connFrame

\* the write loop takes a text of the outgoing channel
ConnWrite ==
    /\ \/ TaskWriteOk /\ UNCHANGED pending_at_send_failure
       \/ TaskWriteFail /\ pending_at_send_failure' = Some(DOMAIN pending_requests)
    /\ UNCHANGED <<connFrameCore, rx_dropped, wsVars, outVars, arrived, forwarded, supBrAux>>

\* the ConnectionActor handles the next message of its mailbox
ConnMailbox == ConnHandleMailbox /\ UNCHANGED connFrame

\* the ResponseFuture of a SendMessage completes
ConnSendFut ==
    /\ \E i \in DOMAIN send_futs : SendFutComplete(i)
    /\ UNCHANGED connFrame

\* the supervisor handles a status update
ConnSupMailbox == SupHandleMailbox /\ UNCHANGED supFrame

\* the supervisor stops
ConnSupStop == SupStopping /\ UNCHANGED supFrame

\* a caller's SendCommand is handled
ConnSendCommand ==
    /\ \E session_id \in Sessions, method \in Methods, params \in Params :
          SendCommand(session_id, method, params, TRUE)
    /\ UNCHANGED <<connRest, supVars, evtRest, arrivals, auxVars>>

\* the answer to a SendMessage reaches the .map closure
ConnSendResult ==
    /\ \E id \in DOMAIN send_reply :
          /\ CmdSendResult(id, send_reply[id])
          /\ send_reply' = MapRemove(send_reply, id)
    /\ UNCHANGED <<connVars, supVars, evtRest, arrivals, auxVars>>

\* the CommandActor handles the next message of its mailbox
ConnCmdMailbox == CmdHandleMailbox /\ UNCHANGED <<connVars, supVars, evtRest, arrivals, auxVars>>

NextConn ==
    \/ ConnStart
    \/ ConnTaskConnect
    \/ ConnReceive
    \/ ConnReceiveEnd
    \/ ConnWrite
    \/ ConnMailbox
    \/ ConnSendFut
    \/ ConnSupMailbox
    \/ ConnSupStop
    \/ ConnSendCommand
    \/ ConnSendResult
    \/ ConnCmdMailbox
    \/ StepEvtMailbox

SpecConn == Init /\ [][NextConn]_vars

\* C13: a ConnectionActor whose state is Disconnected or FailedToStart has
\* stopped; from then on its state never changes and it publishes no status
\* update (the supervisor's mailbox only shrinks), whatever TransportEvent,
\* SendMessage or stop request is sent to it; and no status update is ever
\* published after a Disconnected or FailedToStart one.
C13_TerminalStateIsFinal ==
    /\ [](/\ IsTerminal(conn_state) => conn_running = "stopped"
          /\ \A i, j \in DOMAIN sup_mbox : i < j => ~IsTerminal(sup_mbox[i]))
    /\ [][IsTerminal(conn_state) =>
            /\ conn_state' = conn_state
            /\ conn_running' = conn_running
            /\ Len(sup_mbox') <= Len(sup_mbox)]_vars

\* the connection failed with an error; afterwards the supervisor stopped (its
\* stop request found the ConnectionActor gone) and a command's SendMessage was
\* refused by the closed mailbox
C13_Witness ==
    /\ conn_state = Disconnected(Some(ConnectionFailed("reset")))
    /\ ~sup_running
    /\ sinks[1] = <<ErrActor("ConnectionActor mailbox error")>>

\* C14: a SendMessage answered while the ConnectionActor's state is not
\* Connected is answered Err(NotConnected), and the step that answers it puts
\* nothing on the outbound channel.
C14_NotConnectedUnlessConnected ==
    [][\A id \in Ids :
          (id \in DOMAIN send_reply' /\ id \notin DOMAIN send_reply /\ conn_state # Connected)
             => /\ send_reply'[id].tag = "Err"
                /\ send_reply'[id].err.kind = "NotConnected"
                /\ Len(outgoing') <= Len(outgoing)]_vars

\* the ConnectionActor, the supervisor and the CommandActor handle their
\* mailboxes; spawned futures are polled
LiveConn ==
    /\ SpecConn
    /\ WF_vars(ConnMailbox)
    /\ WF_vars(ConnSupMailbox)
    /\ WF_vars(ConnCmdMailbox)
    /\ WF_vars(ConnSendFut)
    /\ WF_vars(ConnSendResult)

ResponsesWaiting(mbox) ==
    {k \in DOMAIN mbox : mbox[k].type = "IncomingMessage"}

MaxWaiting == 2
MaxRaw == 101

\* the n-th text sent by a holder of the address other than the CommandActor
RawText(n) == JsonText([method |-> "Raw.send", params |-> Value(ToString(n))])

InitOut == InitEvt

\* a holder of the ConnectionActor's address sends SendMessage(text); these
\* senders send in a burst, before the write loop has written anything
OutSendRaw ==
    /\ sent_raw < MaxRaw
    /\ wire = <<>>
    /\ Len(conn_mbox) + Len(send_futs) < MaxWaiting
    /\ conn_running # "stopped"
    /\ sent_raw' = sent_raw + 1
    /\ conn_mbox' = DoSend(conn_mbox, [type |-> "SendMessage", text |-> RawText(sent_raw + 1),
                                       reply_to |-> 0])
    /\ UNCHANGED <<cmdVars, handled, connRest, supVars, evtVars, arrivals,
                   rx_dropped, wsVars, accepted, wire, obsVars, supBrAux>>

\* a caller's SendCommand is handled, once the burst has been sent
OutSendCommand ==
    /\ sent_raw = MaxRaw
    /\ \E session_id \in Sessions, method \in Methods, params \in Params :
          SendCommand(session_id, method, params, TRUE)
    /\ UNCHANGED <<connRest, supVars, evtRest, arrivals, auxVars>>

\* the ConnectionActor handles the next message of its mailbox
OutMailbox ==
    /\ ConnHandleMailbox
    /\ accepted' = IF Head(conn_mbox).type = "SendMessage"
                   THEN Append(accepted, Head(conn_mbox).text)
                   ELSE accepted
    /\ UNCHANGED <<connFrameCore, rx_dropped, wsVars, sent_raw, wire, obsVars, supBrAux>>

\* the ResponseFuture of a SendMessage completes
OutSendFut ==
    /\ \E i \in DOMAIN send_futs : SendFutComplete(i)
    /\ UNCHANGED <<connFrameCore, auxVars>>

\* the write loop takes the next text of the channel and transport.send writes it
OutWrite ==
    /\ TaskWriteOk
    /\ wire' = Append(wire, Head(outgoing))
    /\ UNCHANGED <<connFrameCore, rx_dropped, wsVars, sent_raw, accepted, obsVars, supBrAux>>

\* the answer to a command's SendMessage reaches the .map closure
OutSendResult ==
    /\ \E id \in DOMAIN send_reply :
          /\ CmdSendResult(id, send_reply[id])
          /\ send_reply' = MapRemove(send_reply, id)
    /\ UNCHANGED <<connVars, supVars, evtRest, arrivals, auxVars>>

NextOut ==
    \/ OutSendRaw
    \/ OutSendCommand
    \/ OutMailbox
    \/ OutSendFut
    \/ OutWrite
    \/ OutSendResult

SpecOut == InitOut /\ [][NextOut]_vars

\* a is an initial part of b
IsPrefix(a, b) == Len(a) <= Len(b) /\ \A i \in DOMAIN a : a[i] = b[i]

\* the command id a text carries, 0 when it is not a command of the CommandActor
CommandIdOf(text) == IF "id" \in DOMAIN text.obj THEN text.obj.id ELSE 0

\* C11: the texts written to the transport, followed by the texts waiting in the
\* outbound channel, are the texts of the SendMessage the ConnectionActor
\* handled, in the order it handled them, up to the last one enqueued; this with
\* several futures in flight and with senders waiting on a full channel.  Of two
\* commands written, the one the CommandActor accepted first (the smaller id)
\* is written first.
C11_WritesInAcceptedOrder ==
    /\ IsPrefix(wire \o outgoing, accepted)
    /\ \A j, k \in DOMAIN wire :
          (j < k /\ CommandIdOf(wire[j]) > 0 /\ CommandIdOf(wire[k]) > 0)
             => CommandIdOf(wire[j]) < CommandIdOf(wire[k])

\* the channel is full after a first write, the futures of commands 1 and 2 wait
\* on it in that order
C11_Witness ==
    /\ Len(outgoing) = OutgoingCapacity
    /\ Len(wire) = 1
    /\ Len(send_futs) = 2
    /\ CommandIdOf(send_futs[1].text) = 1
    /\ CommandIdOf(send_futs[2].text) = 2

\* the write loop runs, spawned futures are polled and the ConnectionActor
\* handles its mailbox
LiveOut ==
    /\ SpecOut
    /\ WF_vars(OutWrite)
    /\ WF_vars(OutSendFut)
    /\ WF_vars(OutMailbox)

\* C15: on a connection that stays Connected, a future that finds the outbound
\* channel full stays waiting (it is neither answered nor dropped) until the
\* write loop has taken a text; a future that completes has put its text on
\* the channel, which had room; no SendMessage is answered with an error and no
\* command's sink receives one; and every text the ConnectionActor accepted is
\* eventually written.
C15_SaturationIsNotAnError ==
    /\ [](/\ \A id \in DOMAIN send_reply : send_reply[id] = ReplyOk
          /\ \A id \in Ids : sinks[id] = <<>>
          /\ Len(outgoing) <= OutgoingCapacity)
    /\ [][/\ ((Len(outgoing) = OutgoingCapacity /\ outgoing' = outgoing
                /\ Len(send_futs') <= Len(send_futs))
                  => send_futs' = send_futs)
           /\ ((Len(send_futs') < Len(send_futs))
                  => (/\ Len(outgoing) < OutgoingCapacity
                      /\ \E i \in DOMAIN send_futs :
                            outgoing' = Append(outgoing, send_futs[i].text)))
          ]_vars
    /\ []<>(wire = accepted)

\* command 1 found the channel full, waited, and its text is now the last of a
\* channel that is full again; the command is still pending, its sink empty
C15_Witness ==
    /\ Len(outgoing) = OutgoingCapacity
    /\ CommandIdOf(outgoing[OutgoingCapacity]) = 1
    /\ 1 \in DOMAIN pending_requests
    /\ sinks[1] = <<>>
    /\ send_reply = EmptyMap
    /\ next_id = 2

(***************************************************************************)
(* WebSocketTransport, and specification SpecWs: the transport in the      *)
(* hands of its owner (the connection task, or any holder of a             *)
(* Box<dyn Transport>), with the read loop forwarding what receive()       *)
(* returns.                                                                *)
(***************************************************************************)
\* Text frames the peer sends before it closes
MaxFrames == 3

\* the WebSocketTransport's fields
Transport == [sink |-> ws_sink, source |-> ws_source]

\* WebSocketTransport::connect; handshakeOk is the outcome of connect_async
connect(t, handshakeOk) ==
    IF t.sink \/ t.source
    THEN [t |-> t, result |-> ReplyErr(ConnectionFailed("Already connected"))]
    ELSE IF handshakeOk
         THEN [t |-> [sink |-> TRUE, source |-> TRUE], result |-> ReplyOk]
         ELSE [t |-> t, result |-> ReplyErr(ConnectionFailed("handshake"))]

\* faulty variant of disconnect: without a sink it fails as send does and leaves
\* the source in place
disconnect_requiring_sink(t, closeSent) ==
    IF t.sink
    THEN [t |-> [sink |-> FALSE, source |-> FALSE], result |-> ReplyOk, close |-> closeSent]
    ELSE [t |-> t, result |-> ReplyErr(NotConnected("WebSocket sink unavailable")),
          close |-> FALSE]

\* WebSocketTransport::disconnect; closeSent is the outcome of sending the Close
\* frame, which is only logged
disconnect(t, closeSent) ==
    [t |-> [sink |-> FALSE, source |-> FALSE],
     result |-> ReplyOk,
     close |-> t.sink /\ closeSent]

\* what source.next() can yield: frames of each kind, receive errors, the end
FrameKinds == {"Text", "Binary", "Ping", "Pong", "Close", "Frame",
               "ConnectionClosed", "Io", "End"}

\* the n-th Text frame of the connection
FrameText(n) == JsonText([method |-> "Page.loadEventFired", params |-> Value(ToString(n))])

\* one call of WebSocketTransport::receive on the frame source.next() yields:
\* it returns a result, or calls receive() again and returns that call's
\* result ("again"), or calls receive() twice, dropping the first call's result
\* and returning the second's ("ping")
receive(kind, text) ==
    CASE kind = "Text" -> [step |-> "result", result |-> Some([tag |-> "Ok", text |-> text])]
      [] kind \in {"Binary", "Pong"} -> [step |-> "again", result |-> None]
      [] kind = "Ping" -> [step |-> "ping", result |-> None]
      [] kind \in {"Close", "ConnectionClosed", "End"} -> [step |-> "result", result |-> None]
      [] kind = "Frame" ->
            [step |-> "result",
             result |-> Some(ReplyErr(ReceiveFailed("Received unexpected raw frame")))]
      [] kind = "Io" -> [step |-> "result", result |-> Some(ReplyErr(TransportIo("io")))]

\* the connection task has the transport connect
WsConnect ==
    /\ \E handshakeOk \in BOOLEAN :
          LET c == connect(Transport, handshakeOk) IN
          /\ ws_sink' = c.t.sink
          /\ ws_source' = c.t.source
          /\ IF c.result = ReplyOk THEN TaskConnectOk ELSE TaskConnectErr(c.result.err)
    /\ handled' = Other
    /\ UNCHANGED <<next_id, pending_requests, timers, sinks, allocated, cmd_running,
                   sup, sup_running, evtVars, arrivals,
                   rx_dropped, ws_discards, ws_ended, outVars, obsVars, supBrAux>>

\* the read loop: source.next() yields a frame to the receive() call in progress
WsFrame ==
    /\ task = "duplex"
    /\ ws_source
    /\ \E kind \in FrameKinds :
          LET text == FrameText(Len(arrived) + 1)
              r == receive(kind, text)
              ends == kind \in {"Close", "ConnectionClosed", "Io", "Frame", "End"} IN
          /\ ws_ended => kind = "End"
          /\ kind = "Text" => Len(arrived) < MaxFrames
          /\ kind = "Ping" => ws_discards < MaxFrames
          /\ arrived' = IF kind = "Text" THEN Append(arrived, text) ELSE arrived
          /\ ws_ended' = (ws_ended \/ ends)
          /\ CASE r.step = "again" ->
                    UNCHANGED <<ws_discards, forwarded, connVars, send_reply, sup_mbox, cmd_mbox>>
               [] r.step = "ping" ->
                    /\ ws_discards' = ws_discards + 1
                    /\ UNCHANGED <<forwarded, connVars, send_reply, sup_mbox, cmd_mbox>>
               [] r.step = "result" /\ ws_discards > 0 ->
                    /\ ws_discards' = ws_discards - 1
                    /\ UNCHANGED <<forwarded, connVars, send_reply, sup_mbox, cmd_mbox>>
               [] r.step = "result" /\ ws_discards = 0 ->
                    /\ UNCHANGED ws_discards
                    /\ IF r.result.tag = "Some" /\ r.result.v.tag = "Ok"
                       THEN /\ TaskReceive(r.result.v.text)
                            /\ forwarded' = IF cmd_running
                                            THEN Append(forwarded, r.result.v.text)
                                            ELSE forwarded
                       ELSE /\ TaskReceiveEnd(IF r.result.tag = "Some"
                                              THEN Some(r.result.v.err) ELSE None)
                            /\ UNCHANGED forwarded
    /\ handled' = Other
    /\ UNCHANGED <<next_id, pending_requests, timers, sinks, allocated, cmd_running,
                   sup, sup_running, evtVars, arrivals,
                   rx_dropped, ws_sink, ws_source, outVars, pending_at_send_failure,
                   supBrAux>>

\* the owner of the transport calls disconnect(): the write loop when it ends,
\* or any other holder of the transport, while no receive() is in progress
WsDisconnect ==
    /\ task # "duplex"
    /\ \E closeSent \in BOOLEAN :
          LET d == disconnect(Transport, closeSent) IN
          /\ ws_sink' = d.t.sink
          /\ ws_source' = d.t.source
          /\ handled' = [op |-> "disconnect", id |-> 0, result |-> d.result,
                          before |-> Transport]
    /\ UNCHANGED <<cmdVars, connVars, supVars, evtVars, arrivals,
                   rx_dropped, ws_discards, ws_ended, outVars, obsVars, supBrAux>>

\* the ConnectionActor starts
WsStart == ConnStarted /\ UNCHANGED connFrame

\* the ConnectionActor handles the next message of its mailbox
WsConnMailbox == ConnHandleMailbox /\ handled' = Other
                 /\ UNCHANGED <<next_id, pending_requests, timers, sinks, allocated,
                                cmd_running, sup, sup_running, evtVars, arrivals, auxVars>>

\* the supervisor handles a status update
WsSupMailbox == SupHandleMailbox /\ UNCHANGED supFrame

\* the CommandActor handles the next message of its mailbox
WsCmdMailbox == CmdHandleMailbox /\ UNCHANGED <<connVars, supVars, evtRest, arrivals, auxVars>>

\* the EventActor handles the next message of its mailbox
WsEvtMailbox == StepEvtMailbox

NextWs ==
    \/ WsStart
    \/ WsConnect
    \/ WsFrame
    \/ WsDisconnect
    \/ WsConnMailbox
    \/ WsSupMailbox
    \/ WsCmdMailbox
    \/ WsEvtMailbox

SpecWs == Init /\ [][NextWs]_vars

\* C12: the texts the read loop has forwarded to the message handler are,
\* in order and without loss or duplication, the Text frames that have arrived
\* on the transport (each Text frame is forwarded in the step it arrives, as
\* long as no close or error came before it); Ping, Pong and Binary frames
\* make no Text frame go missing.
C12_ForwardedEqualsArrived == forwarded = arrived

\* C20: every call of disconnect() returns Ok and leaves the transport without
\* sink and source, whether it was connected, never connected or already
\* disconnected; on a transport already without sink and source the call changes
\* nothing, so two calls leave it as one call does.
C20_DisconnectIdempotent ==
    /\ [](\A a, b \in BOOLEAN :
            /\ disconnect(disconnect(Transport, a).t, b).t = disconnect(Transport, a).t
            /\ disconnect(disconnect(Transport, a).t, b).result = ReplyOk)
    /\ [][handled'.op = "disconnect" =>
            /\ handled'.result = ReplyOk
            /\ ~ws_sink' /\ ~ws_source'
            /\ (~ws_sink /\ ~ws_source) => (ws_sink' = ws_sink /\ ws_source' = ws_source)]_vars

\* disconnect() was called on a transport that already had neither sink nor
\* source, after the connection had been established and had received a text
C20_Witness ==
    /\ handled.op = "disconnect"
    /\ handled.before = [sink |-> FALSE, source |-> FALSE]
    /\ handled.result = ReplyOk
    /\ ~ws_sink /\ ~ws_source
    /\ task = "closed"
    /\ forwarded # <<>>

(***************************************************************************)
(* Subscribe and Unsubscribe on the subscription maps SpecEvt reaches.     *)
(***************************************************************************)
SubscriptionKeys == EventNames \X SessionIds

\* C18 as stated: from every subscription map, Subscribe then Unsubscribe of
\* the same (name, session, s) gives the map back.
C18_SubscribeUnsubscribeRestores ==
    \A key \in SubscriptionKeys, s \in Subscribers :
       SubscriptionsAfterUnsubscribe(SubscriptionsAfterSubscribe(subscriptions, key, s), key, s)
          = subscriptions

\* C18 as amended: when s is not subscribed under (name, session), whether or
\* not the key exists, Subscribe then Unsubscribe of (name, session, s) gives
\* the map back; when s is already subscribed the pair removes s (and the key
\* with it when s was alone); in both cases no empty set is left in the map.
C18_SubscribeUnsubscribeRestoresWhenAbsent ==
    \A key \in SubscriptionKeys, s \in Subscribers :
       LET after == SubscriptionsAfterUnsubscribe(
                        SubscriptionsAfterSubscribe(subscriptions, key, s), key, s) IN
       /\ s \notin SubscribersOf(subscriptions, key) => after = subscriptions
       /\ s \in SubscribersOf(subscriptions, key) =>
             after = SubscriptionsAfterUnsubscribe(subscriptions, key, s)
       /\ \A k \in DOMAIN after : after[k] # {}
       /\ \A k \in DOMAIN subscriptions : subscriptions[k] # {}

\* the map holds one key with two subscribers, reached after an unsubscribe
\* emptied and removed another key: both the absent-key and the
\* present-key cases of the round trip apply, and events have been delivered
C18_Witness ==
    /\ DOMAIN subscriptions = {<<"Page.loadEventFired", None>>}
    /\ subscriptions[<<"Page.loadEventFired", None>>] = {"S1", "S2"}
    /\ delivered["S1"] # <<>>

\* C19: a Subscribe whose subscriber is already in the set of its key leaves
\* the subscription map unchanged, and the EventActor never hands a subscriber
\* more than one copy of an event: a step appends at most one event to a
\* subscriber's mailbox, and only to subscribers matched by the published event.
C19_ResubscribeIsNoOp ==
    /\ [](\A key \in SubscriptionKeys, s \in Subscribers :
            s \in SubscribersOf(subscriptions, key) =>
               SubscriptionsAfterSubscribe(subscriptions, key, s) = subscriptions)
    /\ [][\A s \in Subscribers :
            \/ delivered'[s] = delivered[s]
            \/ /\ evt_mbox # <<>>
               /\ Head(evt_mbox).type = "ProtocolEvent"
               /\ s \in RecipientsToNotify(subscriptions, Head(evt_mbox).event)
               /\ delivered'[s] = Append(delivered[s], Head(evt_mbox).event)]_vars

\* S1 is subscribed to Page.loadEventFired both for every session and for
\* sess-A, alongside S2; one sess-A event was published and S1 holds one copy
C19_Witness ==
    /\ "S1" \in SubscribersOf(subscriptions, <<"Page.loadEventFired", None>>)
    /\ "S1" \in SubscribersOf(subscriptions, <<"Page.loadEventFired", Some("sess-A")>>)
    /\ "S2" \in SubscribersOf(subscriptions, <<"Page.loadEventFired", None>>)
    /\ Len(delivered["S1"]) = 1
    /\ delivered["S1"][1].method = "Page.loadEventFired"
    /\ delivered["S1"][1].session_id = Some("sess-A")

(***************************************************************************)
(* Specification SpecDrop: the CommandActor of Spec with callers that may  *)
(* drop the receiving end of a command's result channel.                   *)
(***************************************************************************)

\* the caller of command id drops the oneshot receiver of its result
DropReceiver(id) ==
    /\ id < next_id
    /\ id \notin rx_dropped
    /\ rx_dropped' = rx_dropped \cup {id}
    /\ handled' = Other
    /\ UNCHANGED <<cmdVars, connVars, supVars, evtVars, arrivals, wsVars, outVars, obsVars,
                   supBrAux>>

DropResultReceiver == \E id \in Ids : DropReceiver(id)

NextDrop ==
    \/ StepSendCommand
    \/ StepSendResult
    \/ StepCommandTimeout
    \/ StepIncomingMessage
    \/ StepCmdMailbox
    \/ StepConnectionStatus
    \/ StepEvtMailbox
    \/ DropResultReceiver

SpecDrop == Init /\ [][NextDrop]_vars

\* C17: the step in which a caller drops its result receiver changes neither
\* pending_requests nor the timers nor any sink; afterwards the record and its
\* timer stay as they are in every step that does not remove the record; and
\* the response or the CommandTimeout for that id removes exactly that record
\* and its timer, delivers nothing, and leaves every other record, timer and
\* sink as it was.
C17_DroppedReceiverLeavesPending ==
    /\ [][rx_dropped' # rx_dropped =>
            /\ pending_requests' = pending_requests
            /\ timers' = timers
            /\ sinks' = sinks]_vars
    /\ [][\A id \in rx_dropped \cap DOMAIN pending_requests :
            /\ id \in DOMAIN pending_requests' =>
                  /\ pending_requests'[id] = pending_requests[id]
                  /\ (id \in timers) = (id \in timers')
            /\ (handled'.op \in {"response", "CommandTimeout"} /\ handled'.id = id) =>
                  /\ pending_requests' = MapRemove(pending_requests, id)
                  /\ timers' = timers \ {id}
                  /\ sinks' = sinks]_vars

\* command 1's receiver was dropped while it was pending; its response was
\* handled: record 1 is gone, nothing was delivered, command 2 is still pending
\* with its timer
C17_Witness ==
    /\ rx_dropped = {1}
    /\ handled.op = "response"
    /\ handled.id = 1
    /\ sinks[1] = <<>>
    /\ DOMAIN pending_requests = {2}
    /\ timers = {2}

(***************************************************************************)
(* Specification SpecSup: the SupervisorActor and the messages it sends to *)
(* the actors it supervises.  The supervised actors' mailboxes keep every  *)
(* message sent to them, so that what each received can be counted.        *)
(***************************************************************************)
\* shutdown signals and other messages the supervisor handles in one run
MaxSignals == 3

\* the status updates a ConnectionActor can send
SupStatuses ==
    {Connecting, Connected, Disconnecting, Disconnected(None),
     Disconnected(Some(ConnectionFailed("reset"))), FailedToStart(InvalidUrl("bad url"))}

\* a status update that asks the supervisor to shut its actors down
IsShutdownStatus(state) ==
    \/ state.tag = "Disconnected" /\ state.err.tag = "Some"
    \/ state.tag = "FailedToStart"

supOthers == <<next_id, pending_requests, timers, sinks, allocated, send_reply, cmd_running,
               handled, connRest, sup_mbox, evtRest, arrivals, rx_dropped, wsVars, outVars,
               obsVars, page_actors, target_sessions, pages, create_page, br_commands, br_replies,
               br_observed, coreVars>>

\* StartBrowserActor is handled
SupStartBrowser ==
    /\ sup_running
    /\ SupStartBrowserActor
    /\ UNCHANGED <<sup, sup_running, sup_signals, cmd_mbox, evt_mbox, conn_mbox, br_mbox,
                   supOthers>>

\* a ConnectionStatusUpdate is handled
SupStatus ==
    /\ sup_running
    /\ \E state \in SupStatuses :
          /\ IF IsShutdownStatus(state)
             THEN sup_signals < MaxSignals /\ sup_signals' = sup_signals + 1
             ELSE Len(cmd_mbox) < MaxSignals /\ sup_signals' = sup_signals
          /\ SupConnectionStatusUpdate(state)
    /\ UNCHANGED <<sup_running, conn_mbox, br_running, supOthers>>

\* a ConnectionTerminated is handled
SupTerminated ==
    /\ sup_running
    /\ \E same_addr \in BOOLEAN, error \in {None, Some(ConnectionFailed("reset"))} :
          /\ IF error.tag = "Some"
             THEN sup_signals < MaxSignals /\ sup_signals' = sup_signals + 1
             ELSE sup_signals' = sup_signals
          /\ SupConnectionTerminated(same_addr, error)
    /\ UNCHANGED <<sup_running, conn_mbox, br_running, supOthers>>

\* the supervisor stops
SupStop ==
    /\ SupStopping
    /\ sup_signals' = sup_signals + 1
    /\ UNCHANGED <<br_running, next_id, pending_requests, timers, sinks, allocated,
                   send_reply, cmd_running, handled, connRest, evtRest, arrivals,
                   rx_dropped, wsVars, outVars, obsVars, page_actors, target_sessions, pages,
                   create_page, br_commands, br_replies, br_observed, coreVars>>

NextSup ==
    \/ SupStartBrowser
    \/ SupStatus
    \/ SupTerminated
    \/ SupStop

SpecSup == Init /\ [][NextSup]_vars

\* the number of messages of a type in a mailbox
CountOf(mbox, type) == Cardinality({k \in DOMAIN mbox : mbox[k].type = type})

\* C21: each supervised actor is sent its stop or shutdown message at most
\* once, and a shutdown signal handled after an earlier one changes neither the
\* supervisor's fields nor any supervised actor's mailbox.
C21_RepeatedShutdownHasNoEffect ==
    /\ [](/\ CountOf(cmd_mbox, "Stop") <= 1
          /\ CountOf(evt_mbox, "Stop") <= 1
          /\ CountOf(conn_mbox, "Stop") <= 1
          /\ CountOf(br_mbox, "ShutdownBrowser") <= 1)
    /\ [][(sup_signals >= 1 /\ sup_signals' = sup_signals + 1) =>
            UNCHANGED <<sup, browser_actors, cmd_mbox, evt_mbox, conn_mbox, br_mbox>>]_vars

(***************************************************************************)
(* SpecEcho: the peer sends back the envelopes SendCommand built.          *)
(***************************************************************************)
EchoMethods == {"Browser.getVersion", "Page.navigate"}
EchoSessions == {None, Some("sess-A")}
EchoParams == {Value("{}"), Value("null")}

\* Handler<SendCommand> with every shape of envelope it can build
EchoSendCommand ==
    /\ EvtIdle
    /\ \E session_id \in EchoSessions, method \in EchoMethods, params \in EchoParams :
          SendCommand(session_id, method, params, TRUE)
    /\ UNCHANGED <<connRest, supVars, evtRest, arrivals, auxVars>>

\* an envelope handed to the ConnectionActor comes back as an inbound text
EchoIncomingMessage ==
    /\ EvtIdle
    /\ cmd_running
    /\ \E i \in 1..Len(conn_mbox) :
          /\ conn_mbox[i].type = "SendMessage"
          /\ CmdIncomingMessage(conn_mbox[i].text)
    /\ UNCHANGED <<cmd_mbox, connVars, supVars, evtRest, arrivals, auxVars>>

NextEcho ==
    \/ EchoSendCommand
    \/ EchoIncomingMessage

SpecEcho == Init /\ [][NextEcho]_vars

\* C25: every envelope SendCommand serializes parses back as an inbound
\* message that is classified as the response to its own id (the id field
\* takes precedence over the method field), and the handler that receives it
\* treats it as that response and forwards no event.
C25_OwnEnvelopeIsResponse ==
    /\ [](\A i \in 1..Len(conn_mbox) :
            conn_mbox[i].type = "SendMessage" =>
              /\ Classify(conn_mbox[i].text) = "response"
              /\ ParseIncoming(conn_mbox[i].text).parsed.id = Some(conn_mbox[i].reply_to)
              /\ ParseIncoming(conn_mbox[i].text).parsed.method.tag = "Some")
    /\ [][EchoIncomingMessage =>
            /\ handled'.op = "response"
            /\ "method" \in DOMAIN handled'.text.obj
            /\ evt_mbox' = evt_mbox]_vars

\* an envelope with a method and a sessionId came back and was taken as a response
C25_Witness ==
    /\ handled.op = "response"
    /\ "method" \in DOMAIN handled.text.obj
    /\ "sessionId" \in DOMAIN handled.text.obj
    /\ handled.id \notin DOMAIN pending_requests

(***************************************************************************)
(* Failure of the SendMessage call.                                        *)
(***************************************************************************)
\* the .map closure of Handler<SendCommand> has cleaned up after command id:
\* its record is removed, its timer cancelled, the other records are as they
\* were and its sink has received one more value, of the given kinds
CleanedUpWith(id, kinds) ==
    /\ pending_requests' = MapRemove(pending_requests, id)
    /\ timers' = timers \ {pending_requests[id].timeout_handle}
    /\ pending_requests[id].timeout_handle \notin timers'
    /\ \A j \in DOMAIN sinks : j # id => sinks'[j] = sinks[j]
    /\ id \notin rx_dropped =>
          /\ Len(sinks'[id]) = Len(sinks[id]) + 1
          /\ sinks'[id][Len(sinks'[id])].kind \in kinds

\* C26: when the SendMessage call for a pending command fails, whether the
\* ConnectionActor answers with a transport error or cannot be reached, the
\* closure removes that command's record, cancels its timer and completes its
\* sink with a transport error; every other record is untouched.
C26_SendFailureCleansUp ==
    [][\A id \in DOMAIN send_reply :
          (/\ id \notin DOMAIN send_reply'
           /\ send_reply[id].tag # "Ok"
           /\ id \in DOMAIN pending_requests)
             => CleanedUpWith(id, {"Transport"})]_vars

\* the same for the arm in which the ConnectionActor answered Err(transport_err)
C26_TransportErrorCleansUp ==
    [][\A id \in DOMAIN send_reply :
          (/\ id \notin DOMAIN send_reply'
           /\ send_reply[id].tag = "Err"
           /\ id \in DOMAIN pending_requests)
             => CleanedUpWith(id, {"Transport"})]_vars

\* a transport error reached the sink of a command while another was pending
C26_TransportErrorSeen ==
    \E id \in Ids :
       /\ Len(sinks[id]) = 1
       /\ sinks[id][1].kind = "Transport"
       /\ \E j \in DOMAIN pending_requests : j # id

(***************************************************************************)
(* Serialization failure in Handler<SendCommand>.                          *)
(***************************************************************************)
\* the step is a Handler<SendCommand> that returned Err(Serialization)
SerializationFailed ==
    /\ Len(allocated') = Len(allocated) + 1
    /\ ~allocated'[Len(allocated')].accepted

\* C27: a SendCommand whose envelope cannot be serialized returns the
\* Serialization error at once and registers nothing: pending_requests and
\* the timers are as before and nothing is handed to the ConnectionActor.
C27_SerializationFailureRegistersNothing ==
    [][SerializationFailed =>
          /\ pending_requests' = pending_requests
          /\ timers' = timers
          /\ conn_mbox' = conn_mbox
          /\ send_reply' = send_reply
          /\ sinks'[next_id] = Append(sinks[next_id], ErrSerialization)]_vars

\* a command failed to serialize while another command was pending
C27_Witness ==
    \E i \in 1..Len(allocated) :
       /\ ~allocated[i].accepted
       /\ sinks[allocated[i].id] = <<ErrSerialization>>
       /\ allocated[i].id \notin DOMAIN pending_requests
       /\ \E j \in DOMAIN pending_requests : j < allocated[i].id

(***************************************************************************)
(* SpecInbound: SpecConn with a peer that also sends texts that are not    *)
(* JSON and JSON objects without id, method and error.                     *)
(***************************************************************************)
Truncated == [wf |-> FALSE, obj |-> [raw |-> "{\"id\":"]]
InboundConnTexts == ConnTexts \cup OtherTexts \cup {Truncated}

\* the read loop receives a text
InReceive ==
    /\ InFlight < MaxInbox
    /\ \E text \in InboundConnTexts : TaskReceive(text)
    /\ UNCHANGED connFrame

NextInbound ==
    \/ ConnStart
    \/ ConnTaskConnect
    \/ InReceive
    \/ ConnReceiveEnd
    \/ ConnWrite
    \/ ConnMailbox
    \/ ConnSendFut
    \/ ConnSupMailbox
    \/ ConnSupStop
    \/ ConnSendCommand
    \/ ConnSendResult
    \/ ConnCmdMailbox
    \/ StepEvtMailbox

SpecInbound == Init /\ [][NextInbound]_vars

\* the CommandActor takes an IncomingMessage with one of the texts off its mailbox
HandlesIncoming(texts) ==
    /\ cmd_running
    /\ cmd_mbox # <<>>
    /\ Head(cmd_mbox).type = "IncomingMessage"
    /\ Head(cmd_mbox).text \in texts
    /\ cmd_mbox' = Tail(cmd_mbox)

\* the step leaves the requests, the id counter and the connection alone and
\* the CommandActor goes on running
OnlyForwards ==
    /\ UNCHANGED <<pending_requests, timers, sinks, next_id>>
    /\ UNCHANGED <<conn_state, conn_running, conn_mbox, task, outgoing, sup_mbox>>
    /\ cmd_running'

\* texts that are JSON objects with no id, no method and no error
FieldlessTexts ==
    {t \in InboundConnTexts : t.wf /\ DOMAIN t.obj \cap {"id", "method", "error"} = {}}

\* C28: when the CommandActor handles an inbound text that is a JSON object
\* with no id, no method and no error, it sends one event to the running
\* EventActor: the message is not dropped.
C28_FieldlessTextBecomesEvent ==
    [][(HandlesIncoming(FieldlessTexts) /\ evt_running) =>
          /\ Len(evt_mbox') = Len(evt_mbox) + 1
          /\ evt_mbox'[Len(evt_mbox')].type = "ProtocolEvent"]_vars

\* texts that are not JSON
UnparsableTexts == {t \in InboundConnTexts : ~t.wf}

\* C29: when the CommandActor handles an inbound text that does not parse, it
\* sends exactly one event, Protocol.deserializeError with the raw text, to
\* the EventActor (nothing when that actor has stopped); pending_requests,
\* the timers, the sinks and next_id are unchanged, the ConnectionActor's
\* state, mailbox and connection task are unchanged, and the CommandActor
\* keeps running.
C29_ParseFailureBecomesEvent ==
    [][HandlesIncoming(UnparsableTexts) =>
          /\ evt_mbox' =
                IF evt_running
                THEN Append(evt_mbox,
                        [type |-> "ProtocolEvent",
                         event |-> [session_id |-> None,
                                    method |-> "Protocol.deserializeError",
                                    params |-> Value([error |-> "parse error",
                                                      raw |-> Head(cmd_mbox).text.obj.raw])]])
                ELSE evt_mbox
          /\ OnlyForwards]_vars

\* the event of a truncated text is waiting for the EventActor while command 1
\* is still pending on a connection that is still Connected
C29_Witness ==
    /\ \E i \in DOMAIN evt_mbox :
          /\ evt_mbox[i].type = "ProtocolEvent"
          /\ evt_mbox[i].event.method = "Protocol.deserializeError"
          /\ evt_mbox[i].event.params.json.raw = Truncated.obj.raw
    /\ 1 \in DOMAIN pending_requests
    /\ sinks[1] = <<>>
    /\ cmd_running
    /\ conn_state = Connected
    /\ task = "duplex"

(***************************************************************************)
(* CommandActor shutdown.                                                  *)
(***************************************************************************)
\* the error every request pending at shutdown is failed with
ShutDownError == ErrActor("CommandActor shut down")

\* C30: the step in which the CommandActor stops sends the one shutdown error
\* to the sink of every pending request and to no other sink, cancels every
\* pending record's timer and empties pending_requests; a stopped CommandActor
\* has no pending request.
C30_StoppingFailsAllPending ==
    /\ [](~cmd_running => pending_requests = EmptyMap)
    /\ [][(cmd_running /\ ~cmd_running') =>
            /\ pending_requests' = EmptyMap
            /\ \A i \in DOMAIN sinks :
                  sinks'[i] = IF i \in DOMAIN pending_requests
                              THEN Append(sinks[i], ShutDownError)
                              ELSE sinks[i]
            /\ \A i \in DOMAIN pending_requests :
                  pending_requests[i].timeout_handle \notin timers']_vars

\* two requests were pending when the CommandActor stopped: both got the
\* shutdown error and nothing else
C30_Witness ==
    /\ ~cmd_running
    /\ sinks[1] = <<ShutDownError>>
    /\ sinks[2] = <<ShutDownError>>
    /\ timers \cap {1, 2} = {}

(***************************************************************************)
(* ChromeBrowserActor.                                                     *)
(***************************************************************************)
\* a JSON object as the set of its <<name, value>> members
JsonObject(members) == Value(members)
\* the member of a JSON object, as Option
Member(val, name) ==
    IF \E m \in val.json : m[1] = name
    THEN Some((CHOOSE m \in val.json : m[1] = name)[2])
    ELSE None

\* the value ()
Unit == [unit |-> TRUE]
\* Addr::send to an actor that has stopped
MailboxError == [kind |-> "MailboxError"]
ErrDeserialization == [kind |-> "Deserialization"]

\* SendCommand { session_id: None, method, params, result_tx } to the command actor
BrSendCommand(cmds, method, params) ==
    Append(cmds, [session_id |-> None, method |-> method, params |-> params])

\* ProtocolEvent of a Target.* method with the fields its params carry
TargetEvent(method, target_id, type_, session_id) ==
    [method |-> method, target_id |-> target_id, type_ |-> type_, session_id |-> session_id]

\* ChromePageActor::new
NewPageActor(target_id, session_id) ==
    [target_id |-> target_id, session_id |-> session_id, state |-> "Initializing",
     running |-> "new", mbox |-> <<>>, futs |-> <<>>, commands |-> <<>>]

\* the actor page_actors holds for a target id: the one created last for it
PageActorOf(target_id) ==
    CHOOSE i \in DOMAIN pages :
       /\ pages[i].target_id = target_id
       /\ \A j \in DOMAIN pages : j > i => pages[j].target_id # target_id

ClosePageMsg == [type |-> "ClosePage"]

\* page_actor.do_send(msg): fails when the page actor has stopped
PageDoSend(ps, i, msg) ==
    IF ps[i].running # "stopped" THEN [ps EXCEPT ![i].mbox = Append(@, msg)] ELSE ps

\* ChromeBrowserActor::create_page_actor_internal
create_page_actor_internal(target_id, session_id) ==
    /\ pages' = Append(pages, NewPageActor(target_id, session_id))
    /\ page_actors' = page_actors \cup {target_id}

\* faulty variant of the attachedToTarget arm: a page actor is created for
\* every attach event
AttachedToTargetAlwaysCreating(event) ==
    IF event.type_ = "page"
    THEN /\ target_sessions' = MapInsert(target_sessions, event.target_id, event.session_id)
         /\ create_page_actor_internal(event.target_id, event.session_id)
    ELSE UNCHANGED <<page_actors, target_sessions, pages>>

\* handle_target_event, the "Target.attachedToTarget" arm
AttachedToTarget(event) ==
    IF event.type_ = "page"
    THEN /\ target_sessions' = MapInsert(target_sessions, event.target_id, event.session_id)
         /\ IF event.target_id \notin page_actors
            THEN create_page_actor_internal(event.target_id, event.session_id)
            ELSE UNCHANGED <<page_actors, pages>>
    ELSE UNCHANGED <<page_actors, target_sessions, pages>>

\* faulty variant of the removal: the page actor is dropped without ClosePage
RemoveTargetWithoutClosePage(tid) ==
    /\ pages' = pages
    /\ page_actors' = page_actors \ {tid}
    /\ target_sessions' = MapRemove(target_sessions, tid)

\* if let Some(page_actor) = self.page_actors.remove(&tid) { page_actor.do_send(ClosePage) }
\* and self.target_sessions.remove(&tid)
RemoveTarget(tid) ==
    /\ pages' = IF tid \in page_actors
                THEN PageDoSend(pages, PageActorOf(tid), ClosePageMsg)
                ELSE pages
    /\ page_actors' = page_actors \ {tid}
    /\ target_sessions' = MapRemove(target_sessions, tid)

\* ChromeBrowserActor::handle_target_event
handle_target_event(event) ==
    CASE event.method = "Target.targetCreated" ->
            /\ br_commands' =
                  IF event.type_ = "page" /\ event.target_id \notin page_actors
                  THEN BrSendCommand(br_commands, "Target.attachToTarget",
                          JsonObject({<<"targetId", event.target_id>>, <<"flatten", "true">>}))
                  ELSE br_commands
            /\ UNCHANGED <<page_actors, target_sessions, pages>>
      [] event.method = "Target.attachedToTarget" ->
            /\ AttachedToTarget(event)
            /\ UNCHANGED br_commands
      [] event.method = "Target.detachedFromTarget" ->
            /\ IF \E tid \in DOMAIN target_sessions : target_sessions[tid] = event.session_id
               THEN \E tid \in DOMAIN target_sessions :
                       /\ target_sessions[tid] = event.session_id
                       /\ RemoveTarget(tid)
               ELSE UNCHANGED <<page_actors, target_sessions, pages>>
            /\ UNCHANGED br_commands
      [] event.method = "Target.targetDestroyed" ->
            /\ RemoveTarget(event.target_id)
            /\ UNCHANGED br_commands
      [] OTHER -> UNCHANGED <<page_actors, target_sessions, pages, br_commands>>

\* the Target.* events ChromeBrowserActor::started subscribes to
SubscribedTargetEvents ==
    <<"Target.targetCreated", "Target.targetInfoChanged", "Target.attachedToTarget",
      "Target.detachedFromTarget", "Target.targetDestroyed">>

\* ChromeBrowserActor::started
BrStarted ==
    /\ br_running = "new"
    /\ br_running' = "running"
    /\ evt_mbox' = SendToEventActor(evt_mbox,
                      [i \in 1..Len(SubscribedTargetEvents) |->
                          [type |-> "Subscribe", event_name |-> SubscribedTargetEvents[i],
                           session_id |-> None, subscriber |-> "browser"]])
    /\ br_commands' = BrSendCommand(br_commands, "Target.setDiscoverTargets",
                                    JsonObject({<<"discover", "true">>}))
    /\ UNCHANGED <<br_mbox, page_actors, target_sessions, pages, create_page, br_replies, br_observed>>

\* the answers senders get whose messages are in the mailbox when the actor stops
ClosedMailboxReplies(mbox) ==
    LET waiting == SelectSeq(mbox, LAMBDA m : "reply" \in DOMAIN m) IN
    [i \in 1..Len(waiting) |-> [req |-> waiting[i].type, result |-> MailboxError]]

\* ctx.stop(): ChromeBrowserActor::stopping runs and the actor stops; the
\* messages still in its mailbox are answered with a mailbox error
BrStopping(replies) ==
    /\ br_running' = "stopped"
    /\ pages' = [i \in DOMAIN pages |->
                    IF pages[i].target_id \in page_actors
                       /\ i = PageActorOf(pages[i].target_id)
                    THEN PageDoSend(pages, i, ClosePageMsg)[i]
                    ELSE pages[i]]
    /\ page_actors' = {}
    /\ target_sessions' = EmptyMap
    /\ br_replies' = replies \o ClosedMailboxReplies(Tail(br_mbox))
    /\ br_mbox' = <<>>
    /\ create_page' = IF create_page.pc = "asked"
                      THEN [create_page EXCEPT !.pc = "sleeping"]
                      ELSE create_page

\* Handler<ShutdownBrowser> for ChromeBrowserActor
BrShutdownBrowser(msg) ==
    /\ BrStopping(IF "reply" \in DOMAIN msg
                  THEN Append(br_replies, [req |-> "ShutdownBrowser", result |-> Ok(Unit)])
                  ELSE br_replies)
    /\ UNCHANGED <<br_commands, br_observed>>

\* Handler<CreatePage> for ChromeBrowserActor, up to the await of the
\* Target.createTarget result
BrCreatePage(url) ==
    /\ br_commands' = BrSendCommand(br_commands, "Target.createTarget",
                                    JsonObject({<<"url", url>>}))
    /\ create_page' = [pc |-> "awaiting", response |-> None, target_id |-> "", elapsed |-> 0]
    /\ UNCHANGED <<br_running, page_actors, target_sessions, pages, br_replies, br_observed>>


\* faulty variant of the answer to the CreatePage future: any answer of the
\* actor, also "no such page actor", ends the wait
BrGetPageActorAddrAnyAnswer(target_id) ==
    /\ br_replies' = Append(br_replies,
          [req |-> "CreatePage", result |-> Ok([page_id |-> target_id])])
    /\ create_page' = [pc |-> "idle"]
    /\ UNCHANGED <<br_running, page_actors, target_sessions, pages, br_commands, br_observed>>

\* Handler<GetPageActorAddr> for ChromeBrowserActor, and the CreatePage future
\* taking the answer: the page handle when the actor is there (the answer is
\* an address, which NewPageResponse.page_actor_addr requires), else sleep
BrGetPageActorAddr(target_id) ==
    /\ IF target_id \in page_actors
       THEN /\ br_replies' = Append(br_replies,
                   [req |-> "CreatePage", result |-> Ok([page_id |-> target_id])])
            /\ create_page' = [pc |-> "idle"]
       ELSE /\ create_page' = [create_page EXCEPT !.pc = "sleeping"]
            /\ UNCHANGED br_replies
    /\ UNCHANGED <<br_running, page_actors, target_sessions, pages, br_commands, br_observed>>

\* Handler<ProtocolEvent> for ChromeBrowserActor
BrProtocolEvent(event) ==
    /\ handle_target_event(event)
    /\ br_observed' = Append(br_observed, event)
    /\ UNCHANGED <<br_running, create_page, br_replies>>

\* faulty variant of the params: an absent id is written as null
ResetPermissionsParamsWithNull(browser_context_id) ==
    JsonObject({<<"browserContextId",
                  IF browser_context_id.tag = "Some" THEN browser_context_id.v ELSE "null">>})

\* serde_json::to_value(ResetPermissionsParams { browser_context_id }): the
\* member is skipped when the id is None
ResetPermissionsParams(browser_context_id) ==
    IF browser_context_id.tag = "Some"
    THEN JsonObject({<<"browserContextId", browser_context_id.v>>})
    ELSE JsonObject({})

\* Handler<ResetPermissions> for ChromeBrowserActor: one Browser.resetPermissions
\* command; Ok(()) when the command succeeds, else the command's error
BrResetPermissions(browser_context_id, result) ==
    /\ br_commands' = BrSendCommand(br_commands, "Browser.resetPermissions",
                                    ResetPermissionsParams(browser_context_id))
    /\ br_replies' = Append(br_replies,
          [req |-> "ResetPermissions", command_result |-> result,
           result |-> IF result.kind = "Ok" THEN Ok(Unit) ELSE result])
    /\ UNCHANGED <<br_running, page_actors, target_sessions, pages, create_page, br_observed>>

\* results the command actor gives for a browser-level command
CommandFailures == { ErrProtocol(Some(-32000), "failed", None) }
CommandResults == { Ok(JsonObject({})) } \cup CommandFailures
CreateTargetResults ==
    { Ok(JsonObject({<<"targetId", "T1">>})), Ok(JsonObject({})) } \cup CommandFailures

\* the ChromeBrowserActor takes the next message of its mailbox
BrHandleMailbox ==
    /\ br_running = "running"
    /\ br_mbox # <<>>
    /\ LET msg == Head(br_mbox) IN
       CASE msg.type = "ShutdownBrowser" ->
               BrShutdownBrowser(msg)
         [] msg.type = "ProtocolEvent" ->
               BrProtocolEvent(msg.event) /\ br_mbox' = Tail(br_mbox)
         [] msg.type = "CreatePage" ->
               BrCreatePage(msg.url) /\ br_mbox' = Tail(br_mbox)
         [] msg.type = "GetPageActorAddr" ->
               BrGetPageActorAddr(msg.target_id) /\ br_mbox' = Tail(br_mbox)
         [] msg.type = "ResetPermissions" ->
               /\ \E result \in CommandResults :
                     BrResetPermissions(msg.browser_context_id, result)
               /\ br_mbox' = Tail(br_mbox)

\* let check_interval = Duration::from_millis(100), in milliseconds
CheckIntervalMs == 100
\* let timeout = Duration::from_secs(10), in milliseconds
PageTimeoutMs == 10000

\* the CreatePage future completes with a result
CreatePageReturns(result) ==
    /\ br_replies' = Append(br_replies, [req |-> "CreatePage", result |-> result])
    /\ create_page' = [pc |-> "idle"]

\* the CreatePage future gets the result of Target.createTarget and parses it
CreatePageResponse(result) ==
    /\ create_page.pc = "awaiting"
    /\ IF result.kind # "Ok"
       THEN CreatePageReturns(result)
       ELSE IF Member(result.value, "targetId").tag = "None"
       THEN CreatePageReturns(ErrDeserialization)
       ELSE /\ create_page' = [pc |-> "polling", response |-> Some(result),
                               target_id |-> Member(result.value, "targetId").v,
                               elapsed |-> 0]
            /\ UNCHANGED br_replies
    /\ UNCHANGED <<br_running, br_mbox, page_actors, target_sessions, pages, br_commands, br_observed>>

\* the loop of the CreatePage future: the timeout test, then the question to
\* the actor, which fails at once when the actor has stopped
CreatePagePoll ==
    /\ create_page.pc = "polling"
    /\ IF create_page.elapsed > PageTimeoutMs
       THEN CreatePageReturns(ErrTimeout) /\ UNCHANGED br_mbox
       ELSE IF br_running \in {"new", "running"}
       THEN /\ br_mbox' = Append(br_mbox, [type |-> "GetPageActorAddr",
                                           target_id |-> create_page.target_id])
            /\ create_page' = [create_page EXCEPT !.pc = "asked"]
            /\ UNCHANGED br_replies
       ELSE /\ create_page' = [create_page EXCEPT !.pc = "sleeping"]
            /\ UNCHANGED <<br_mbox, br_replies>>
    /\ UNCHANGED <<br_running, page_actors, target_sessions, pages, br_commands, br_observed>>

\* tokio::time::sleep(check_interval) of the CreatePage future
CreatePageSleep ==
    /\ create_page.pc = "sleeping"
    /\ create_page' = [create_page EXCEPT !.pc = "polling",
                                          !.elapsed = @ + CheckIntervalMs]
    /\ UNCHANGED <<br_running, br_mbox, page_actors, target_sessions, pages, br_commands,
                   br_replies, br_observed>>

\* Addr::send of a request to the ChromeBrowserActor
BrSend(msg) ==
    /\ br_running # "none"
    /\ IF br_running = "stopped"
       THEN /\ br_replies' = Append(br_replies, [req |-> msg.type, result |-> MailboxError])
            /\ UNCHANGED br_mbox
       ELSE /\ br_mbox' = Append(br_mbox, msg)
            /\ UNCHANGED br_replies
    /\ UNCHANGED <<br_running, page_actors, target_sessions, pages, create_page, br_commands,
                   br_observed>>

(***************************************************************************)
(* SpecBrowser: the ChromeBrowserActor with its callers, the supervisor    *)
(* that creates and shuts it down, and the Target.* events it is sent.     *)
(***************************************************************************)
MaxCalls == 2
MaxTargetEvents == 2

TargetEvents ==
    { TargetEvent("Target.targetCreated", "T1", "page", ""),
      TargetEvent("Target.attachedToTarget", "T1", "page", "S1"),
      TargetEvent("Target.attachedToTarget", "T2", "page", "S2"),
      TargetEvent("Target.attachedToTarget", "T1", "iframe", "S1"),
      TargetEvent("Target.detachedFromTarget", "", "", "S1"),
      TargetEvent("Target.targetDestroyed", "T1", "", "") }
BrowserContextIds == {None, Some("test_context_123")}

brOthers == <<cmdVars, handled, connVars, supVars, evtRest, arrivals, rx_dropped, wsVars,
              outVars, obsVars, sup_signals, browser_actors, coreVars>>

\* requests made so far that expect an answer
CallsMade ==
    Len(br_replies) + Len(SelectSeq(br_mbox, LAMBDA m : "reply" \in DOMAIN m))
    + (IF create_page.pc = "idle" THEN 0 ELSE 1)

\* Target.* events sent to the actor so far
EventsSent ==
    Len(br_observed) + Len(SelectSeq(br_mbox, LAMBDA m : m.type = "ProtocolEvent"))

\* the ChromeBrowserActor starts
BrStart == BrStarted /\ UNCHANGED brOthers

\* ChromeBrowser::new_page: CreatePage is sent (one at a time)
BrCallCreatePage ==
    /\ CallsMade < MaxCalls
    /\ create_page.pc = "idle"
    /\ \A i \in DOMAIN br_mbox : br_mbox[i].type # "CreatePage"
    /\ BrSend([type |-> "CreatePage", url |-> "about:blank", reply |-> TRUE])
    /\ UNCHANGED <<evt_mbox, brOthers>>

\* ChromeBrowser::close or disconnect: ShutdownBrowser is sent
BrCallShutdown ==
    /\ CallsMade < MaxCalls
    /\ BrSend([type |-> "ShutdownBrowser", reply |-> TRUE])
    /\ UNCHANGED <<evt_mbox, brOthers>>

\* ChromeBrowser::reset_permissions: ResetPermissions is sent
BrCallResetPermissions ==
    /\ CallsMade < MaxCalls
    /\ \E id \in BrowserContextIds :
          BrSend([type |-> "ResetPermissions", browser_context_id |-> id, reply |-> TRUE])
    /\ UNCHANGED <<evt_mbox, brOthers>>

\* the EventActor delivers a Target.* event
BrEvent ==
    /\ EventsSent < MaxTargetEvents
    /\ br_running = "running"
    /\ \E event \in TargetEvents :
          br_mbox' = Append(br_mbox, [type |-> "ProtocolEvent", event |-> event])
    /\ UNCHANGED <<evt_mbox, brVars, brOthers>>

\* the ChromeBrowserActor handles the next message of its mailbox
BrMailbox == BrHandleMailbox /\ UNCHANGED <<evt_mbox, brOthers>>

\* the command actor answers Target.createTarget
BrCreatePageResponse ==
    /\ \E result \in CreateTargetResults : CreatePageResponse(result)
    /\ UNCHANGED <<evt_mbox, brOthers>>

\* the CreatePage future asks for the page actor, or gives up
BrCreatePagePoll == CreatePagePoll /\ UNCHANGED <<evt_mbox, brOthers>>

\* the CreatePage future has slept
BrCreatePageSleep == CreatePageSleep /\ UNCHANGED <<evt_mbox, brOthers>>

NextBrowser ==
    \/ SupStartBrowser
    \/ SupStop
    \/ BrStart
    \/ BrCallShutdown
    \/ BrCallResetPermissions
    \/ BrEvent
    \/ BrMailbox

SpecBrowser == Init /\ [][NextBrowser]_vars

(***************************************************************************)
(* SpecPage: the ChromeBrowserActor with callers of CreatePage and of      *)
(* ShutdownBrowser, the Target.* events and the CreatePage future.         *)
(***************************************************************************)
NextPage ==
    \/ SupStartBrowser
    \/ BrStart
    \/ BrCallCreatePage
    \/ BrCallShutdown
    \/ BrEvent
    \/ BrMailbox
    \/ BrCreatePageResponse
    \/ BrCreatePagePoll
    \/ BrCreatePageSleep

SpecPage == Init /\ [][NextPage]_vars

\* the actor's mailbox is handled and the CreatePage future runs
LivePage ==
    /\ SpecPage
    /\ WF_vars(BrStart)
    /\ WF_vars(BrMailbox)
    /\ WF_vars(BrCreatePageResponse)
    /\ WF_vars(BrCreatePagePoll)
    /\ WF_vars(BrCreatePageSleep)

BrTypeOK ==
    /\ br_running \in {"none", "new", "running", "stopped"}
    /\ page_actors \subseteq {"T1", "T2"}
    /\ create_page.pc \in {"idle", "awaiting", "polling", "asked", "sleeping"}
    /\ create_page.pc \in {"polling", "asked", "sleeping"} =>
          create_page.elapsed \in 0..(PageTimeoutMs + CheckIntervalMs)

\* the answer the caller of CreatePage got last, when the step gives one
CreatePageAnswered ==
    /\ Len(br_replies') = Len(br_replies) + 1
    /\ br_replies'[Len(br_replies')].req = "CreatePage"
    /\ create_page.pc # "idle"

\* the actor has handled a Target.attachedToTarget event for the target
AttachedObserved(target_id) ==
    \E i \in DOMAIN br_observed :
       /\ br_observed[i].method = "Target.attachedToTarget"
       /\ br_observed[i].target_id = target_id


\* C22: CreatePage answers Ok only from its polling loop, that is after the
\* Target.createTarget response with a targetId, and only when the actor has
\* handled a Target.attachedToTarget event for that target; the page id it
\* returns is the targetId of the response. While no such event has been
\* handled the loop can only end with Timeout, which it does once more than
\* the timeout has elapsed, and the wait never exceeds the timeout by more
\* than one check interval. Every CreatePage the actor has taken up is
\* answered in the end.
C22_CreatePageAfterResponseAndAttach ==
    /\ (create_page.pc # "idle") ~> (create_page.pc = "idle")
    /\ [](create_page.pc \in {"polling", "asked", "sleeping"} =>
            /\ create_page.elapsed <= PageTimeoutMs + CheckIntervalMs
            /\ create_page.response.tag = "Some")
    /\ [][CreatePageAnswered =>
            LET r == br_replies'[Len(br_replies')].result IN
            /\ r.kind = "Ok" =>
                  /\ create_page.pc = "asked"
                  /\ create_page.response.v.kind = "Ok"
                  /\ Some(r.value.page_id) = Member(create_page.response.v.value, "targetId")
                  /\ AttachedObserved(r.value.page_id)
            /\ (/\ create_page.pc \in {"polling", "asked", "sleeping"}
                /\ ~AttachedObserved(create_page.target_id)) =>
                  /\ r = ErrTimeout
                  /\ create_page.elapsed > PageTimeoutMs]_vars

\* one CreatePage timed out with no attachment, the next one returned page T1
\* after the attachment of T1 (and that of another target) was handled
C22_Witness ==
    /\ br_replies = << [req |-> "CreatePage", result |-> ErrTimeout],
                       [req |-> "CreatePage", result |-> Ok([page_id |-> "T1"])] >>
    /\ AttachedObserved("T1")
    /\ AttachedObserved("T2")
    /\ target_sessions = MapInsert(MapInsert(EmptyMap, "T1", "S1"), "T2", "S2")

\* C23: the step in which the ChromeBrowserActor handles ShutdownBrowser and
\* stops has submitted a Browser.close command with null params to the
\* command actor, and answers a sender that waits for the answer.
C23_ShutdownSendsBrowserClose ==
    [][(/\ br_running = "running"
        /\ br_running' = "stopped") =>
          /\ \E i \in DOMAIN br_commands' :
                /\ br_commands'[i].method = "Browser.close"
                /\ br_commands'[i].params = ValueNull
          /\ "reply" \in DOMAIN Head(br_mbox) =>
                \E i \in DOMAIN br_replies' :
                   br_replies'[i] = [req |-> "ShutdownBrowser", result |-> Ok(Unit)]]_vars

\* the request is answered when the actor stops
C23_ShutdownAnswered ==
    [][(/\ br_running = "running"
        /\ br_running' = "stopped"
        /\ "reply" \in DOMAIN Head(br_mbox)) =>
          /\ Len(br_replies') > Len(br_replies)
          /\ br_replies'[Len(br_replies) + 1] = [req |-> "ShutdownBrowser", result |-> Ok(Unit)]
          /\ br_commands' = br_commands]_vars

\* the step handles a ResetPermissions message
HandlesResetPermissions ==
    /\ br_running = "running"
    /\ br_mbox # <<>>
    /\ Head(br_mbox).type = "ResetPermissions"
    /\ br_mbox' = Tail(br_mbox)

NewlyPublished ==
    IF Len(sup_mbox') > Len(sup_mbox)
    THEN SubSeq(sup_mbox', Len(sup_mbox) + 1, Len(sup_mbox'))
    ELSE <<>>

\* the step hands an inbound text to the CommandActor
ForwardsInbound ==
    /\ Len(cmd_mbox') > Len(cmd_mbox)
    /\ cmd_mbox'[Len(cmd_mbox')].type = "IncomingMessage"

\* the step writes an outbound text to the transport
WritesOutbound == task = "duplex" /\ outgoing # <<>> /\ outgoing' = Tail(outgoing)

\* the ConnectionActor handles the TransportEvent at the head of its mailbox
HandlesTransportEvent ==
    /\ conn_running = "running"
    /\ conn_mbox # <<>>
    /\ Head(conn_mbox).type = "TransportEvent"
    /\ conn_mbox' # conn_mbox

\* C31, first part: the first status the ConnectionActor publishes on start is
\* Connecting.
C31_ConnectingFirst ==
    [][conn_running = "new" /\ conn_running' = "running" /\ sup_running
          => NewlyPublished = <<Connecting>>]_vars

\* C31, second part: what the connection task reports while the state is
\* Connecting is published as Connected or as FailedToStart(err), FailedToStart
\* being what is published when the connect attempt failed or timed out.
C31_ConnectedOrFailedToStart ==
    [][conn_state = Connecting /\ HandlesTransportEvent /\ sup_running
          => /\ Len(NewlyPublished) = 1
             /\ NewlyPublished[1].tag \in {"Connected", "FailedToStart"}
             /\ task = "failed" => NewlyPublished[1].tag = "FailedToStart"]_vars

\* C31, third part: no inbound text is forwarded and no outbound text is
\* written before Connected is published.
C31_ConnectedBeforeTraffic ==
    [][ForwardsInbound \/ WritesOutbound => conn_state \notin {Idle, Connecting}]_vars

\* C31, fourth part: after FailedToStart the actor has stopped, and Connected
\* is never published afterwards.
C31_FailedToStartIsFinal ==
    /\ [](conn_state.tag = "FailedToStart" => conn_running = "stopped")
    /\ [][conn_state.tag = "FailedToStart" => NewlyPublished = <<>>]_vars

\* C31: on start the ConnectionActor publishes Connecting first and then exactly
\* one of Connected (when connect succeeds within the timeout, before any
\* inbound text is forwarded or outbound text written) or FailedToStart(err)
\* (when connect fails or times out), after which it stops and never publishes
\* Connected.
C31_StartPublishesConnectedOrFailedToStart ==
    /\ C31_ConnectingFirst
    /\ C31_ConnectedOrFailedToStart
    /\ C31_ConnectedBeforeTraffic
    /\ C31_FailedToStartIsFinal

\* the ConnectionActor handles a stop request in this step
HandlesStop ==
    /\ conn_running = "running"
    /\ conn_mbox # <<>>
    /\ Head(conn_mbox).type = "Stop"
    /\ conn_running' = "stopped"

\* C32: stopping the ConnectionActor ends the duplex loop (the task is over and
\* the outbound channel closed) and leaves the actor in a terminal state,
\* Disconnected(None) for a stop requested while it was connecting or connected;
\* the last state it publishes is never Connecting, Connected or Disconnecting.
C32_StopLeavesTerminalState ==
    /\ [](conn_running = "stopped" =>
             /\ task \in {"closed", "failed"}
             /\ ~outgoing_tx
             /\ IsTerminal(conn_state))
    /\ [][HandlesStop =>
             /\ ~IsTerminal(conn_state) => conn_state' = Disconnected(None)
             /\ NewlyPublished # <<>> => IsTerminal(NewlyPublished[Len(NewlyPublished)])]_vars

\* the part of C32 that the code keeps: a stopped ConnectionActor has no duplex
\* loop and no outbound channel
C32_StopEndsDuplexLoop ==
    [](conn_running = "stopped" => task \in {"closed", "failed"} /\ ~outgoing_tx)

(***************************************************************************)
(* The supervisor starts the core actors.                                  *)
(***************************************************************************)
\* Handler<StartCoreActors> for SupervisorActor: the EventActor, then the
\* CommandActor, constructed with the placeholder address, then the
\* ConnectionActor, constructed with the CommandActor as its message handler;
\* the CommandActor's address is not updated afterwards
SupStartCoreActors ==
    IF sup.connection_actor
    THEN UNCHANGED <<sup, evt_running, cmd_running, conn_running, connection_actor,
                     message_handler>>
    ELSE /\ evt_running' = TRUE
         /\ cmd_running' = TRUE
         /\ connection_actor' = "Placeholder"
         /\ conn_running' = "new"
         /\ message_handler' = "CommandActor"
         /\ sup' = [connection_actor |-> TRUE, command_actor |-> TRUE, event_actor |-> TRUE]

\* the supervisor has started and no core actor exists yet
InitCore ==
    /\ next_id = 1
    /\ pending_requests = EmptyMap
    /\ timers = {}
    /\ sinks = [i \in Ids |-> <<>>]
    /\ allocated = <<>>
    /\ send_reply = EmptyMap
    /\ cmd_running = FALSE
    /\ cmd_mbox = <<>>
    /\ handled = Other
    /\ conn_state = Idle
    /\ conn_running = "none"
    /\ conn_mbox = <<>>
    /\ outgoing_tx = FALSE
    /\ task = "none"
    /\ outgoing = <<>>
    /\ send_futs = <<>>
    /\ sup = [connection_actor |-> FALSE, command_actor |-> FALSE, event_actor |-> FALSE]
    /\ sup_running = TRUE
    /\ sup_mbox = <<>>
    /\ evt_mbox = <<>>
    /\ evt_running = FALSE
    /\ subscriptions = EmptyMap
    /\ sink_alive = Subscribers
    /\ delivered = [s \in Subscribers |-> <<>>]
    /\ arrivals = 0
    /\ AuxInit
    /\ connection_actor = "None"
    /\ message_handler = "None"

\* StartCoreActors is handled: once to start the actors, and again while the
\* supervisor holds them
CoreStartCoreActors ==
    /\ sup_running
    /\ conn_running = "none" \/ sup.connection_actor
    /\ SupStartCoreActors
    /\ UNCHANGED <<next_id, pending_requests, timers, sinks, allocated, send_reply, cmd_mbox,
                   handled, conn_state, conn_mbox, outgoing_tx, task, outgoing, send_futs,
                   sup_running, sup_mbox, evt_mbox, subscriptions, sink_alive, delivered,
                   arrivals, rx_dropped, wsVars, outVars, obsVars, sup_signals, brVars, supAux>>

NextCore ==
    \/ CoreStartCoreActors
    \/ ConnStart
    \/ ConnTaskConnect
    \/ ConnReceive
    \/ ConnReceiveEnd
    \/ ConnMailbox
    \/ ConnSupMailbox
    \/ ConnSupStop
    \/ ConnSendCommand
    \/ ConnCmdMailbox
    \/ StepEvtMailbox

SpecCore == InitCore /\ [][NextCore]_vars

\* C33: by the time the ConnectionActor publishes Connected both directions are
\* wired: the message handler of the started ConnectionActor is the
\* CommandActor, and the address the CommandActor sends SendMessage to is the
\* address of that ConnectionActor.
C33_WiredWhenConnected ==
    [](conn_state = Connected =>
          /\ message_handler = "CommandActor"
          /\ connection_actor = "ConnectionActor")

\* the inbound direction alone: the started ConnectionActor forwards to the
\* CommandActor
C33_InboundWired ==
    /\ [](conn_state = Connected => message_handler = "CommandActor")
    /\ [][ForwardsInbound => cmd_mbox'[Len(cmd_mbox')].text \in ConnTexts]_vars

(***************************************************************************)
(* The supervisor observes Disconnected.                                   *)
(***************************************************************************)
\* the messages a step adds to a mailbox
NewlySent(mbox, mboxAfter) ==
    IF Len(mboxAfter) > Len(mbox) THEN SubSeq(mboxAfter, Len(mbox) + 1, Len(mboxAfter)) ELSE <<>>

\* the supervisor, holding its core actors, handles a Disconnected status update
\* with the error option errOpt: the step forwards it to the CommandActor
SupObservesDisconnected(errOpt) ==
    /\ sup_running
    /\ sup = [connection_actor |-> TRUE, command_actor |-> TRUE, event_actor |-> TRUE]
    /\ NewlySent(cmd_mbox, cmd_mbox') # <<>>
    /\ Head(NewlySent(cmd_mbox, cmd_mbox')) =
          [type |-> "ConnectionStatusUpdate", state |-> Disconnected(errOpt)]

\* what the supervisor does in the step in which it observes Disconnected: the
\* CommandActor gets the status update and is stopped (its stopping fails the
\* pending requests), the browser actor it holds is told to shut down, the
\* EventActor is stopped and no core actor address is kept
ShutsCoreActorsDown ==
    /\ NewlySent(cmd_mbox, cmd_mbox')[Len(NewlySent(cmd_mbox, cmd_mbox'))] = StopMsg
    /\ NewlySent(evt_mbox, evt_mbox') = <<StopMsg>>
    /\ browser_actors => NewlySent(br_mbox, br_mbox') = <<ShutdownBrowserMsg>>
    /\ ~browser_actors'
    /\ sup' = [connection_actor |-> FALSE, command_actor |-> FALSE, event_actor |-> FALSE]

\* C34: on observing Disconnected from the ConnectionActor, with or without an
\* error, the supervisor has the CommandActor's pending requests failed, tells
\* the browser actor to shut down and stops the event router, the command actor
\* and the connection actor.
C34_DisconnectedShutsDown ==
    [][\A errOpt \in {None, Some(ConnectionFailed("reset"))} :
          SupObservesDisconnected(errOpt) => ShutsCoreActorsDown]_vars

\* C34 for a Disconnected that carries an error
C34_DisconnectedWithErrorShutsDown ==
    [][SupObservesDisconnected(Some(ConnectionFailed("reset"))) => ShutsCoreActorsDown]_vars

(***************************************************************************)
(* The EventActor and sinks that cannot be reached.                        *)
(***************************************************************************)
\* the EventActor handles the ProtocolEvent at the head of its mailbox
PublishesHead ==
    /\ evt_running
    /\ evt_mbox # <<>>
    /\ Head(evt_mbox).type = "ProtocolEvent"
    /\ evt_mbox' = Tail(evt_mbox)

\* the subscription keys an event is matched against
MatchedKeys(event) == {<<event.method, event.session_id>>, <<event.method, None>>}

\* the sinks subscribed under a key the event is matched against
MatchedSinks(subs, event) ==
    {s \in Subscribers : \E key \in MatchedKeys(event) : s \in SubscribersOf(subs, key)}

\* C35: when delivery of an event to a sink fails because the sink is
\* unreachable, the router removes that sink from the subscription sets the
\* event matched, so that later publishes do not attempt it again; the other
\* matched sinks of the same publish still get the event.
C35_UnreachableSinkRemoved ==
    [][PublishesHead =>
          \A s \in MatchedSinks(subscriptions, Head(evt_mbox).event) :
             IF s \in sink_alive
             THEN delivered'[s] = Append(delivered[s], Head(evt_mbox).event)
             ELSE s \notin MatchedSinks(subscriptions', Head(evt_mbox).event)]_vars

\* the part of C35 about the other sinks: a matched sink that is reachable gets
\* the event whether or not another matched sink is unreachable
C35_OtherSinksStillDelivered ==
    [][PublishesHead =>
          \A s \in MatchedSinks(subscriptions, Head(evt_mbox).event) \cap sink_alive :
             delivered'[s] = Append(delivered[s], Head(evt_mbox).event)]_vars

\* C39: a sink subscribed under both (name, Some(s)) and the wildcard
\* (name, None) gets exactly one copy of a published event (name, Some(s)), not
\* two; and an event whose session is None is matched against the (name, None)
\* set once: a sink of that set gets exactly one copy.
C39_OneCopyPerSink ==
    [][PublishesHead =>
          LET event == Head(evt_mbox).event IN
          \A s \in sink_alive :
             /\ (/\ event.session_id # None
                 /\ s \in SubscribersOf(subscriptions, <<event.method, event.session_id>>)
                 /\ s \in SubscribersOf(subscriptions, <<event.method, None>>))
                   => delivered'[s] = Append(delivered[s], event)
             /\ (/\ event.session_id = None
                 /\ s \in SubscribersOf(subscriptions, <<event.method, None>>))
                   => delivered'[s] = Append(delivered[s], event)]_vars

\* S1 holds both the ("Page.loadEventFired", "sess-A") and the wildcard
\* subscription; the only event that arrived, ("Page.loadEventFired", "sess-A"),
\* has been published and S1 holds one copy
C39_Witness ==
    /\ "S1" \in SubscribersOf(subscriptions, <<"Page.loadEventFired", Some("sess-A")>>)
    /\ "S1" \in SubscribersOf(subscriptions, <<"Page.loadEventFired", None>>)
    /\ "S1" \in sink_alive
    /\ arrivals = 1
    /\ cmd_mbox = <<>>
    /\ evt_mbox = <<>>
    /\ Len(delivered["S1"]) = 1
    /\ delivered["S1"][1].session_id = Some("sess-A")

(***************************************************************************)
(* ChromePageActor.                                                        *)
(***************************************************************************)
\* the events a ChromePageActor subscribes to in started()
SubscribedPageEvents == <<"Page.lifecycleEvent", "Runtime.consoleAPICalled">>

\* ChromePageActor::started
PageStarted(i) ==
    /\ pages[i].running = "new"
    /\ pages' = [pages EXCEPT ![i].running = "running", ![i].state = "Idle"]
    /\ evt_mbox' = SendToEventActor(evt_mbox,
                      [k \in 1..Len(SubscribedPageEvents) |->
                          [type |-> "Subscribe", event_name |-> SubscribedPageEvents[k],
                           session_id |-> Some(pages[i].session_id), subscriber |-> "page"]])

\* ChromePageActor::send_page_command: the SendCommand it sends, after the
\* commands the page actor has sent before
send_page_command(page, method) ==
    Append(page.commands, [session_id |-> Some(page.session_id), method |-> method])

\* Handler<Navigate> for ChromePageActor, with the first poll of its future
PageNavigate(i) ==
    pages' = [pages EXCEPT ![i].state = "Navigating",
                           ![i].commands = send_page_command(pages[i], "Page.navigate"),
                           ![i].futs = Append(@, "Navigate"),
                           ![i].mbox = Tail(@)]

\* Handler<EvaluateScript> for ChromePageActor, with the first poll of its future
PageEvaluateScript(i) ==
    pages' = [pages EXCEPT ![i].state = "Evaluating",
                           ![i].commands = send_page_command(pages[i], "Runtime.evaluate"),
                           ![i].futs = Append(@, "EvaluateScript"),
                           ![i].mbox = Tail(@)]

\* Handler<ClosePage> for ChromePageActor, with the first poll of its future
PageClosePage(i) ==
    pages' = [pages EXCEPT ![i].state = "Closing",
                           ![i].commands = Append(@, [session_id |-> None,
                                                      method |-> "Target.closeTarget"]),
                           ![i].futs = Append(@, "ClosePage"),
                           ![i].mbox = Tail(@)]

\* the lifecycle events that end a navigation
LoadedNames == {"load", "networkIdle", "DOMContentLoaded"}

\* the state Handler<ProtocolEvent> for ChromePageActor leaves
StateAfterProtocolEvent(page, msg) ==
    IF msg.session_id # Some(page.session_id) THEN page.state
    ELSE IF /\ msg.method = "Page.lifecycleEvent"
            /\ msg.name \in LoadedNames
            /\ page.state = "Navigating"
         THEN "Idle"
         ELSE page.state

\* Handler<ProtocolEvent> for ChromePageActor
PageProtocolEvent(i, msg) ==
    pages' = [pages EXCEPT ![i].state = StateAfterProtocolEvent(pages[i], msg),
                           ![i].mbox = Tail(@)]

\* ChromePageActor::stopping, and the actor stops
PageStopping(page) ==
    [page EXCEPT !.state = "Closed", !.running = "stopped", !.mbox = <<>>]

\* a sequence without its k-th element
Without(seq, k) == [j \in 1..(Len(seq) - 1) |-> IF j < k THEN seq[j] ELSE seq[j + 1]]

\* the k-th future of a page actor completes: the futures of Navigate and
\* EvaluateScript return their result to the caller; the future of ClosePage
\* stops the actor
PageFutComplete(i, k) ==
    LET page == [pages[i] EXCEPT !.futs = Without(@, k)] IN
    pages' = [pages EXCEPT ![i] = IF pages[i].futs[k] = "ClosePage" /\ page.running # "stopped"
                                  THEN PageStopping(page)
                                  ELSE page]

\* the ChromePageActor takes the next message of its mailbox
PageHandleMailbox(i) ==
    /\ pages[i].running = "running"
    /\ pages[i].mbox # <<>>
    /\ LET msg == Head(pages[i].mbox) IN
       CASE msg.type = "Navigate" -> PageNavigate(i)
         [] msg.type = "EvaluateScript" -> PageEvaluateScript(i)
         [] msg.type = "ClosePage" -> PageClosePage(i)
         [] msg.type = "ProtocolEvent" -> PageProtocolEvent(i, msg)

(***************************************************************************)
(* SpecPages: the ChromeBrowserActor with the Target.* events, the page    *)
(* actors it creates, their callers and the events sent to them.           *)
(***************************************************************************)
\* the Target.* events, and a second attach of target T1 with a new session
ReattachEvents ==
    TargetEvents \cup {TargetEvent("Target.attachedToTarget", "T1", "page", "S3")}

\* Target.* events the ChromeBrowserActor is sent in one run of SpecTargets
MaxAttachEvents == 3

\* the lifecycle events of a session
LifecycleEvents(session_id) ==
    {[type |-> "ProtocolEvent", method |-> "Page.lifecycleEvent",
      session_id |-> Some(session_id), name |-> name] : name \in {"init", "load"}}

pgOthers == <<br_running, br_mbox, page_actors, target_sessions, create_page, br_commands,
              br_replies, br_observed, brOthers>>

\* Navigate and EvaluateScript messages sent to page actors so far
PageCallsMade ==
    LET Sent(i) == Len(SelectSeq(pages[i].commands,
                                 LAMBDA c : c.method \in {"Page.navigate", "Runtime.evaluate"}))
        Waiting(i) == Len(SelectSeq(pages[i].mbox,
                                    LAMBDA m : m.type \in {"Navigate", "EvaluateScript"}))
        Sum[n \in 0..Len(pages)] == IF n = 0 THEN 0 ELSE Sum[n - 1] + Sent(n) + Waiting(n) IN
    Sum[Len(pages)]

\* the ChromeBrowserActor is sent one of the events
SendTargetEvent(events) ==
    /\ br_running = "running"
    /\ \E event \in events :
          br_mbox' = Append(br_mbox, [type |-> "ProtocolEvent", event |-> event])
    /\ UNCHANGED <<evt_mbox, brVars, brOthers>>

\* the EventActor delivers a Target.* event to the ChromeBrowserActor
PgTargetEvent == EventsSent < MaxTargetEvents /\ SendTargetEvent(ReattachEvents)

\* the same, in SpecTargets
TgTargetEvent == EventsSent < MaxAttachEvents /\ SendTargetEvent(ReattachEvents)

\* a page actor starts
PgStart ==
    /\ \E i \in DOMAIN pages : PageStarted(i)
    /\ UNCHANGED pgOthers

\* a holder of a page actor's address sends Navigate or EvaluateScript
PgCall ==
    /\ PageCallsMade < MaxCalls
    /\ \E i \in DOMAIN pages, type \in {"Navigate", "EvaluateScript"} :
          /\ pages[i].running # "stopped"
          /\ pages' = PageDoSend(pages, i, [type |-> type])
    /\ UNCHANGED <<evt_mbox, pgOthers>>

\* the EventActor delivers a lifecycle event of a page actor's session to it
PgEvent ==
    /\ \E i \in DOMAIN pages :
          /\ pages[i].running = "running"
          /\ pages[i].mbox = <<>>
          /\ \E msg \in LifecycleEvents(pages[i].session_id) :
                pages' = PageDoSend(pages, i, msg)
    /\ UNCHANGED <<evt_mbox, pgOthers>>

\* a page actor handles the next message of its mailbox
PgMailbox ==
    /\ \E i \in DOMAIN pages : PageHandleMailbox(i)
    /\ UNCHANGED <<evt_mbox, pgOthers>>

\* a future of a page actor completes
PgFut ==
    /\ \E i \in DOMAIN pages : \E k \in DOMAIN pages[i].futs : PageFutComplete(i, k)
    /\ UNCHANGED <<evt_mbox, pgOthers>>

NextPages ==
    \/ SupStartBrowser
    \/ BrStart
    \/ BrCallShutdown
    \/ PgTargetEvent
    \/ BrMailbox
    \/ PgStart
    \/ PgCall
    \/ PgEvent
    \/ PgMailbox
    \/ PgFut

SpecPages == Init /\ [][NextPages]_vars

(***************************************************************************)
(* SpecTargets: the ChromeBrowserActor with the Target.* events and the    *)
(* page actors it creates and closes; nobody calls the page actors.        *)
(***************************************************************************)
NextTargets ==
    \/ SupStartBrowser
    \/ BrStart
    \/ BrCallShutdown
    \/ TgTargetEvent
    \/ BrMailbox
    \/ PgStart
    \/ PgMailbox
    \/ PgFut

SpecTargets == Init /\ [][NextTargets]_vars

\* the ChromeBrowserActor handles the Target.* event of the method at the head
\* of its mailbox
HandlesTargetEvent(method) ==
    /\ br_running = "running"
    /\ br_mbox # <<>>
    /\ Head(br_mbox).type = "ProtocolEvent"
    /\ Head(br_mbox).event.method = method
    /\ br_mbox' = Tail(br_mbox)

\* C36: on Target.attachedToTarget for a page target the browser actor records
\* target_sessions[targetId] = sessionId and, if the target has no page actor,
\* creates exactly one, for that target and session; if it has one, no second
\* one is created.
C36_AttachRecordsSessionAndOneActor ==
    [][(HandlesTargetEvent("Target.attachedToTarget") /\ Head(br_mbox).event.type_ = "page") =>
          LET e == Head(br_mbox).event IN
          /\ e.target_id \in DOMAIN target_sessions'
          /\ target_sessions'[e.target_id] = e.session_id
          /\ page_actors' = page_actors \cup {e.target_id}
          /\ IF e.target_id \notin page_actors
             THEN pages' = Append(pages, NewPageActor(e.target_id, e.session_id))
             ELSE pages' = pages]_vars

\* target T1 was attached twice with session S1: target_sessions maps T1 to S1
\* and one page actor exists
C36_Witness ==
    /\ Len(br_observed) = 2
    /\ \A i \in 1..2 : br_observed[i] = TargetEvent("Target.attachedToTarget", "T1", "page", "S1")
    /\ page_actors = {"T1"}
    /\ target_sessions["T1"] = "S1"
    /\ Len(pages) = 1

\* the entries of target tid are removed from page_actors and target_sessions,
\* ClosePage is sent to its page actor, and nothing else changes
TargetRemoved(tid) ==
    /\ page_actors' = page_actors \ {tid}
    /\ DOMAIN target_sessions' = DOMAIN target_sessions \ {tid}
    /\ \A t \in DOMAIN target_sessions' : target_sessions'[t] = target_sessions[t]
    /\ Len(pages') = Len(pages)
    /\ \A i \in DOMAIN pages :
          pages'[i] = IF tid \in page_actors /\ i = PageActorOf(tid)
                      THEN [pages[i] EXCEPT !.mbox = Append(@, ClosePageMsg)]
                      ELSE pages[i]

\* C37: on Target.detachedFromTarget, for the target whose session id the event
\* carries, and on Target.targetDestroyed, for the target whose id it carries,
\* the browser actor removes the target's entries from page_actors and
\* target_sessions and sends ClosePage to its page actor; the entries of every
\* other target are unchanged.
C37_DetachOrDestroyRemovesTarget ==
    [][/\ HandlesTargetEvent("Target.detachedFromTarget") =>
             LET matched == {tid \in DOMAIN target_sessions :
                                target_sessions[tid] = Head(br_mbox).event.session_id} IN
             IF matched = {}
             THEN UNCHANGED <<page_actors, target_sessions, pages>>
             ELSE \E tid \in matched : TargetRemoved(tid)
       /\ HandlesTargetEvent("Target.targetDestroyed") =>
             TargetRemoved(Head(br_mbox).event.target_id)]_vars

\* targets T1 and T2 were attached and T1 was then destroyed: T2 keeps its
\* entries and the page actor of T1 has been sent ClosePage
C37_Witness ==
    /\ Len(br_observed) = 3
    /\ br_observed[3].method = "Target.targetDestroyed"
    /\ page_actors = {"T2"}
    /\ DOMAIN target_sessions = {"T2"}
    /\ \E i \in DOMAIN pages :
          /\ pages[i].target_id = "T1"
          /\ \E k \in DOMAIN pages[i].mbox : pages[i].mbox[k] = ClosePageMsg

\* C40: after any sequence of attached, detached and destroyed events,
\* page_actors and target_sessions hold the same target ids, and for each of
\* them the session id its page actor puts on its commands is
\* target_sessions[target].
C40_PageActorsMatchSessions ==
    /\ page_actors = DOMAIN target_sessions
    /\ \A t \in page_actors :
          LET sent == send_page_command(pages[PageActorOf(t)], "Page.navigate") IN
          sent[Len(sent)].session_id = Some(target_sessions[t])

\* the first half of C40: the two maps hold the same target ids
C40_SameTargets == page_actors = DOMAIN target_sessions

\* a future of the kind completes at page actor i in this step
FutCompletes(i, kind) ==
    \E k \in DOMAIN pages[i].futs :
       /\ pages[i].futs[k] = kind
       /\ pages'[i].futs = Without(pages[i].futs, k)

\* page actor i handles a lifecycle event of its session that ends a navigation
HandlesLoaded(i) ==
    /\ pages[i].running = "running"
    /\ pages[i].mbox # <<>>
    /\ Head(pages[i].mbox).type = "ProtocolEvent"
    /\ Head(pages[i].mbox).name \in LoadedNames
    /\ pages'[i].mbox = Tail(pages[i].mbox)
    /\ pages'[i].running = "running"

\* C38, the part about completion: a navigating page actor is Idle again once
\* the load event of its navigation is handled
C38_LoadEndsNavigation ==
    [][\A i \in DOMAIN pages :
          HandlesLoaded(i) /\ pages[i].state = "Navigating" => pages'[i].state = "Idle"]_vars

\* C38, the part about Closed: no transition leaves Closed
C38_ClosedIsFinal ==
    [][\A i \in DOMAIN pages : pages[i].state = "Closed" => pages'[i].state = "Closed"]_vars

\* C38, the part about entering: Navigating and Evaluating are entered only
\* from Idle
C38_EnteredOnlyFromIdle ==
    [][\A i \in DOMAIN pages :
          (/\ pages'[i].state \in {"Navigating", "Evaluating"}
           /\ pages'[i].state # pages[i].state) => pages[i].state = "Idle"]_vars

\* C38: the page actor's state follows Initializing, Idle, Navigating or
\* Evaluating, Idle, Closing, Closed: once EvaluateScript completes (its future
\* returns) or Navigate completes (the load event is handled) the state is Idle
\* again; Navigating and Evaluating are entered only from Idle; and no
\* transition leaves Closed.
C38_PageStateMachine ==
    /\ [][\A i \in DOMAIN pages :
             (/\ FutCompletes(i, "EvaluateScript")
              /\ pages[i].running = "running"
              /\ pages[i].state = "Evaluating") => pages'[i].state = "Idle"]_vars
    /\ C38_LoadEndsNavigation
    /\ C38_EnteredOnlyFromIdle
    /\ C38_ClosedIsFinal

====
